---- MODULE Spec2Model ----
(***************************************************************************)
(* IndexDub: the resumable dubbing pipeline (src/src/pipeline.py) with the *)
(* subtitle extraction it drives (src/src/subtitle_parser.py) and the      *)
(* collaborators it calls (audio_processor.py, audio_merger.py,            *)
(* tts_engine.py).                                                         *)
(*                                                                         *)
(* Times are integers in milliseconds (the code uses float seconds).       *)
(* A file is a pair <<kind, n>>: n is the segment id for the per-segment   *)
(* files seg_NNNN.wav, ref_NNNN.wav, dub_NNNN.wav, dub_NNNN_final.wav and  *)
(* 0 for the files named after the project.  One project is modelled, so   *)
(* project_name, video_source and subtitle_source are fixed and left out   *)
(* of the manifest record.                                                 *)
(***************************************************************************)
EXTENDS Integers, Sequences, FiniteSets, Bags, TLC

VARIABLES
    pc,        \* position of the controller: idle, start, the stage about to run, done, failed
    mode,      \* demo configuration / full mode of the constructed Pipeline
    force_run, \* Pipeline.force_run
    m,         \* Pipeline.manifest (in memory)
    saved,     \* content of the manifest file, NoManifest when the file does not exist
    disk,      \* files that exist
    clipWin,   \* <<start, end>> the clip file on disk was cut for (content of the file)
    idx,       \* loop position in the per-segment stages (1-based)
    tts_engine,\* Pipeline.tts_engine: "none", "created" or "unloaded"
    calls,     \* collaborator calls made since run() was entered: <<operation, segment index>>
    fails,     \* those of calls that failed
    raised,    \* message of the exception run() re-raised, Null if none
    saved0,    \* the manifest file the constructor loaded, NoManifest if it loaded none
    disk0,     \* files on disk when the constructor returned
    parsed0,   \* manifest.segments right after the parse stage of this run
    events,    \* failed collaborator calls, files removed from outside and terminations, so far
    prev,      \* calls that had returned when the run before this one was terminated
    arg,       \* arguments of the function examined on its own, Null in a pipeline run
    res        \* what that function returned, Null before it has

vars == <<pc, mode, force_run, m, saved, disk, clipWin, idx, tts_engine,
          calls, fails, raised, saved0, disk0, parsed0, events, prev, arg, res>>

pipelineVars == <<mode, force_run, m, saved, disk, clipWin, idx, tts_engine,
                  calls, fails, raised, saved0, disk0, parsed0, events, prev>>

(***************************************************************************)
(* Bounds of the model                                                     *)
(***************************************************************************)
MaxOther == 2       \* segments of the second project sharing the temp directory
MaxEntries == 2     \* entries of batch.json
MaxDigits == 8      \* decimal digits of the integers given to the numeral reading
MaxSpans == 2       \* occupied spans under the gap volume envelope
MaxRegions == 3     \* occupied spans given to the span merging examined on its own
MaxFollowers == 2   \* segments after the one whose speed multiplier is computed
MaxDubbed == 104    \* segments handed to the audio merger examined on its own
MaxCues == 3        \* cues of a subtitle file given to the extraction examined on its own
MaxEvents == 1      \* failing collaborator calls plus files removed from outside (between
                    \* runs), counted over one behaviour

(***************************************************************************)
(* Program constants                                                       *)
(***************************************************************************)
ClipPadding == 2000      \* get_video_clip_times(padding=2.0)
RangeTolerance == 2000   \* _invalidate_on_range_change: 2.0 s
PairWindow == 10         \* load: abs(next_start - start) < 0.01

Null == "null"
NoPath == <<"none", 0>>
NoManifest == [status |-> "nofile"]

Max2(a, b) == IF a >= b THEN a ELSE b
Abs(x) == IF x < 0 THEN -x ELSE x

(***************************************************************************)
(* The subtitle file and the video.  A cue is [start, end, text]; text is  *)
(* the sequence of the lines of plaintext.strip() (empty when the cue has  *)
(* no text), a line being [cn, txt]: txt the tokens left by _clean_text,   *)
(* cn whether they contain a Chinese character.  The cues are sorted by    *)
(* start, as subs.sort() leaves them.                                      *)
(***************************************************************************)
Line(cn, txt) == [cn |-> cn, txt |-> txt]
Cue(s, e, text) == [start |-> s, end |-> e, text |-> text]

Subs ==
    << Cue(60000, 61000, <<Line(TRUE, <<"A">>)>>),
       Cue(62000, 63000, <<Line(TRUE, <<"B">>)>>) >>

VideoDuration == 80000

Modes == {"demoA", "demoB", "demoC", "demoNone", "full"}

\* config.demo_start_time, demo_end_time, demo_max_segments as main() sets them
DemoCfg(md) ==
    CASE md = "demoA" -> [start |-> 60000, end |-> 120000, max |-> 1]
      [] md = "demoB" -> [start |-> 62000, end |-> 120000, max |-> 1]
      [] md = "demoC" -> [start |-> 60000, end |-> 120000, max |-> 2]
      [] OTHER        -> [start |-> 90000, end |-> 120000, max |-> 2]

(***************************************************************************)
(* Segment and SubtitleParser                                              *)
(***************************************************************************)
\* a constructor call with a segment counter that was incremented before use
NewSegmentCountedEarly(id, s, e, src, tgt) ==
    [id |-> id + 1, start_time |-> s, end_time |-> e, duration |-> e - s,
     source_text |-> src, target_text |-> tgt,
     ref_audio_path |-> NoPath, output_audio_path |-> NoPath,
     actual_duration |-> Null, status |-> "pending", error_msg |-> Null]

\* a constructor call with source_text and target_text interchanged
NewSegmentTextsSwapped(id, s, e, src, tgt) ==
    [id |-> id, start_time |-> s, end_time |-> e, duration |-> e - s,
     source_text |-> tgt, target_text |-> src,
     ref_audio_path |-> NoPath, output_audio_path |-> NoPath,
     actual_duration |-> Null, status |-> "pending", error_msg |-> Null]

NewSegment(id, s, e, src, tgt) ==
    [id |-> id, start_time |-> s, end_time |-> e, duration |-> e - s,
     source_text |-> src, target_text |-> tgt,
     ref_audio_path |-> NoPath, output_audio_path |-> NoPath,
     actual_duration |-> Null, status |-> "pending", error_msg |-> Null]

\* _convert_numbers rewrites digit runs only; the tokens of Subs hold no digit
ConvertNumbers(txt) == txt

RECURSIVE JoinParts(_, _)
\* ' '.join of the cleaned non-empty parts whose classification is cn
JoinParts(text, cn) ==
    IF text = <<>> THEN <<>>
    ELSE LET p == Head(text)
             rest == JoinParts(Tail(text), cn)
         IN IF p.txt # <<>> /\ p.cn = cn THEN p.txt \o rest ELSE rest

RECURSIVE LoadFrom(_, _, _, _, _, _)
LoadFrom(subs, i, segments, start_time, end_time, max_segments) ==
    IF i > Len(subs) THEN segments
    ELSE
    LET line == subs[i]
        id == Len(segments) + 1
        capped(segs) == max_segments # 0 /\ Len(segs) >= max_segments
        continue(j, segs) == LoadFrom(subs, j, segs, start_time, end_time, max_segments)
        emit(j, src, tgt) ==
            LET segs == Append(segments,
                          NewSegment(id, line.start, line.end, src, ConvertNumbers(tgt)))
            IN IF capped(segs) THEN segs ELSE continue(j, segs)
    IN
    IF line.start < start_time THEN continue(i + 1, segments)
    ELSE IF line.start >= end_time THEN segments
    ELSE IF line.text = <<>> THEN continue(i + 1, segments)
    ELSE IF Len(line.text) > 1 THEN
        \* inline bilingual cue
        LET target == JoinParts(line.text, TRUE)
            source == JoinParts(line.text, FALSE)
        IN IF target = <<>> THEN continue(i + 1, segments)
           ELSE emit(i + 1, source, target)
    ELSE
        LET cleaned == line.text[1].txt
            is_chinese == line.text[1].cn
            hasNext == i + 1 <= Len(subs)
            next == subs[i + 1]
            sameTime == hasNext /\ Abs(next.start - line.start) < PairWindow
                        /\ next.text # <<>>
            \* next_text is cleaned as one string, whatever its lines
            next_cleaned == JoinParts(next.text, TRUE) \o JoinParts(next.text, FALSE)
            next_is_chinese == \E k \in 1..Len(next.text) :
                                   next.text[k].cn /\ next.text[k].txt # <<>>
        IN
        IF sameTime /\ ~is_chinese /\ next_is_chinese
            THEN emit(i + 2, cleaned, next_cleaned)
        ELSE IF sameTime /\ is_chinese /\ ~next_is_chinese
            THEN emit(i + 2, next_cleaned, cleaned)
        ELSE IF sameTime /\ is_chinese /\ next_is_chinese
            THEN emit(i + 2, <<>>, cleaned)
        ELSE IF is_chinese THEN emit(i + 1, <<>>, cleaned)
        ELSE continue(i + 1, segments)

BatchSize == 50           \* audio_merger.py: batch_size
SafetyMargin == 30        \* audio_merger.py: safety_margin = 0.03 s
GapMergeThreshold == 300  \* config.py: gap_merge_threshold = 0.30 s
GapFadeDuration == 150    \* config.py: gap_fade_duration = 0.15 s

\* SubtitleParser.load; max_segments = 0 stands for None, Infinity for float('inf')
Infinity == 1000000000

Load(subs, start_time, end_time, max_segments) ==
    LoadFrom(subs, 1, <<>>, start_time, end_time, max_segments)

\* SubtitleParser.get_video_clip_times
GetVideoClipTimes(segments, padding) ==
    IF segments = <<>> THEN <<0, 60000>>
    ELSE << Max2(0, segments[1].start_time - padding),
            segments[Len(segments)].end_time + padding >>

(***************************************************************************)
(* Files                                                                   *)
(***************************************************************************)
ProjFile(kind) == <<kind, 0>>
ClipFile == ProjFile("clip")            \* intermediate/{project}_clip.mp4
FullAudio == ProjFile("full")           \* intermediate/{project}_full.wav
VocalsFile == ProjFile("vocals")        \* intermediate/{project}_full_vocals.wav
BgmFile == ProjFile("bgm")              \* intermediate/{project}_full_bgm.wav
GapVocalFile == ProjFile("gap_vocal")   \* intermediate/{project}_gap_vocal.wav
CombinedFile == ProjFile("combined")    \* intermediate/{project}_combined_dub.wav
MixedFile == ProjFile("mixed")          \* intermediate/{project}_mixed.wav
DubTrackFile == ProjFile("dub_track")   \* temp/{project}_dub.wav
FinalVideoFile == ProjFile("final")     \* output/{project}_dubbed.mp4
SegFile(id) == <<"seg", id>>            \* segments/seg_NNNN.wav
RefFile(id) == <<"ref", id>>            \* segments/ref_NNNN.wav
DubFile(id) == <<"dub", id>>            \* output/dub_NNNN.wav
DubFinalFile(id) == <<"dub_final", id>> \* output/dub_NNNN_final.wav

IntermediateKinds == {"clip", "full", "vocals", "bgm", "gap_vocal", "combined", "mixed"}
Exists(path, d) == path # NoPath /\ path \in d

(***************************************************************************)
(* ProjectManifest                                                         *)
(***************************************************************************)
StageNames == {"parse", "clip", "extract", "process", "generate", "merge"}

FreshManifest ==
    [status |-> "pending",
     clipped_video |-> NoPath, vocal_track |-> NoPath, bgm_track |-> NoPath,
     dubbed_track |-> NoPath, final_video |-> NoPath,
     stages_status |-> [s \in StageNames |-> "pending"],
     clip_start |-> 0, clip_end |-> 0,
     segments |-> <<>>,
     error_msg |-> Null]

\* Pipeline._clean_intermediate_files: the files left on disk
CleanIntermediateFiles(d) ==
    { f \in d :
        /\ ~(f[1] = "dub_track")              \* temp/{project}_*.wav, *.mp4
        /\ ~(f[1] \in IntermediateKinds)      \* intermediate/{project}_*
        /\ ~(f[1] \in {"seg", "ref"})         \* segments/seg_*.wav, ref_*.wav
        /\ ~(f[1] \in {"dub", "dub_final"}) } \* output/dub_*.wav

\* a test that trusts the flag without looking for the file
IsStageCompletedByFlag(mm, d, stage_name) == mm.stages_status[stage_name] = "completed"

\* Pipeline._is_stage_completed
IsStageCompleted(mm, d, stage_name) ==
    IF mm.stages_status[stage_name] # "completed" THEN FALSE
    ELSE CASE stage_name = "clip"    -> Exists(mm.clipped_video, d)
           [] stage_name = "extract" -> Exists(mm.vocal_track, d)
           [] stage_name = "merge"   -> Exists(mm.final_video, d)
           [] OTHER                  -> TRUE

(***************************************************************************)
(* Initial state: nothing on disk, no Pipeline constructed                 *)
(***************************************************************************)
NoPipeline ==
    /\ mode = "demoA"
    /\ force_run = FALSE
    /\ m = FreshManifest
    /\ saved = NoManifest
    /\ disk = {}
    /\ clipWin = <<0, 0>>
    /\ idx = 0
    /\ tts_engine = "none"
    /\ calls = {}
    /\ fails = {}
    /\ raised = Null
    /\ saved0 = NoManifest
    /\ disk0 = {}
    /\ parsed0 = <<>>
    /\ events = 0
    /\ prev = {}

Init ==
    /\ pc = "idle"
    /\ NoPipeline
    /\ arg = Null
    /\ res = Null

(***************************************************************************)
(* A file disappears between two runs (removed by the user, or never       *)
(* written because the earlier process died); the manifest file included.  *)
(***************************************************************************)
LosableKinds == {"clip", "vocals", "final", "dub", "dub_final"}

LoseFile ==
    /\ pc \in {"idle", "done", "failed"}
    /\ events < MaxEvents
    /\ \/ \E f \in disk : f[1] \in LosableKinds /\ disk' = disk \ {f} /\ saved' = saved
       \/ saved # NoManifest /\ saved' = NoManifest /\ disk' = disk
    /\ events' = events + 1
    /\ pc' = "idle"
    /\ UNCHANGED <<mode, force_run, m, clipWin, idx, tts_engine, calls, fails,
                   raised, saved0, disk0, prev, arg, res, parsed0>>

(***************************************************************************)
(* Pipeline.__init__                                                       *)
(***************************************************************************)
Construct ==
    /\ pc \in {"idle", "done", "failed", "terminated"}
    /\ prev' = IF pc = "terminated" THEN prev ELSE {}
    /\ \E md \in Modes, force \in BOOLEAN :
        /\ mode' = md
        /\ force_run' = force
        /\ IF force
             THEN /\ disk' = CleanIntermediateFiles(disk)
                  /\ saved' = NoManifest
                  /\ m' = FreshManifest
             ELSE /\ disk' = disk
                  /\ saved' = saved
                  /\ m' = IF saved # NoManifest THEN saved ELSE FreshManifest
    /\ saved0' = saved'
    /\ disk0' = disk'
    /\ parsed0' = <<>>
    /\ calls' = {}
    /\ fails' = {}
    /\ raised' = Null
    /\ idx' = 0
    /\ tts_engine' = "none"
    /\ pc' = "start"
    /\ UNCHANGED <<clipWin, events, arg, res>>

(***************************************************************************)
(* Pipeline.run: the except and finally clauses                            *)
(***************************************************************************)
Unload(e) == IF e = "none" THEN "none" ELSE "unloaded"

\* a failure that is raised without the manifest being written
FatalNotSaved(mm, msg) ==
    /\ m' = [mm EXCEPT !.status = "error", !.error_msg = msg]
    /\ saved' = saved
    /\ raised' = msg
    /\ tts_engine' = Unload(tts_engine)
    /\ pc' = "failed"

\* except Exception as e: status = "error"; error_msg = str(e); save; raise
Fatal(mm, msg) ==
    /\ m' = [mm EXCEPT !.status = "error", !.error_msg = msg]
    /\ saved' = m'
    /\ raised' = msg
    /\ tts_engine' = Unload(tts_engine)
    /\ pc' = "failed"

\* a collaborator call op either returns or fails; ok tells which
Called(op, ok) ==
    /\ calls' = calls \cup {op}
    /\ fails' = IF ok THEN fails ELSE fails \cup {op}
    /\ events' = IF ok THEN events ELSE events + 1

CanFail == events < MaxEvents

\* run(): status = "processing"; save_manifest()
Begin ==
    /\ pc = "start"
    /\ m' = [m EXCEPT !.status = "processing"]
    /\ saved' = m'
    /\ pc' = "parse"
    /\ UNCHANGED <<mode, force_run, disk, clipWin, idx, tts_engine, calls, fails,
                   raised, saved0, disk0, prev, arg, res, parsed0, events>>

(***************************************************************************)
(* Stage 1: Pipeline._stage_parse_subtitles                                *)
(***************************************************************************)
SegKey(s) == <<s.start_time, s.target_text>>

\* old_segments[key]: the dict keeps the last success segment with that key
OldSegment(segs, key) ==
    LET ks == { k \in 1..Len(segs) : segs[k].status = "success" /\ SegKey(segs[k]) = key }
    IN segs[CHOOSE k \in ks : \A j \in ks : j <= k]

HasOldSegment(segs, key) ==
    \E k \in 1..Len(segs) : segs[k].status = "success" /\ SegKey(segs[k]) = key

\* a restore that takes over the state of an old segment whatever its status
RestoreStateAnyStatus(old, new_segments) ==
    [ k \in 1..Len(new_segments) |->
        LET ns == new_segments[k]
            ks == { j \in 1..Len(old) : SegKey(old[j]) = SegKey(ns) }
        IN
        IF ks # {}
          THEN LET os == old[CHOOSE j \in ks : \A i \in ks : i <= j] IN
               [ns EXCEPT !.status = os.status,
                          !.ref_audio_path = os.ref_audio_path,
                          !.output_audio_path = os.output_audio_path,
                          !.actual_duration = os.actual_duration]
          ELSE ns ]

RestoreState(old, new_segments) ==
    [ k \in 1..Len(new_segments) |->
        LET ns == new_segments[k] IN
        IF HasOldSegment(old, SegKey(ns))
          THEN LET os == OldSegment(old, SegKey(ns)) IN
               [ns EXCEPT !.status = os.status,
                          !.ref_audio_path = os.ref_audio_path,
                          !.output_audio_path = os.output_audio_path,
                          !.actual_duration = os.actual_duration]
          ELSE ns ]

ParseSubtitles ==
    /\ pc = "parse"
    /\ LET demo == mode # "full"
           cfg == DemoCfg(mode)
           new_segments == IF demo THEN Load(Subs, cfg.start, cfg.end, cfg.max)
                           ELSE Load(Subs, 0, Infinity, 0)
           window == IF demo THEN GetVideoClipTimes(new_segments, ClipPadding)
                     ELSE <<0, VideoDuration>>
           probe == <<"get_duration_video", 0>>
       IN
       \E ok \in BOOLEAN :
          /\ demo => ok
          /\ ~ok => CanFail
          /\ IF demo THEN UNCHANGED <<calls, fails, events>> ELSE Called(probe, ok)
          /\ IF ~ok THEN
                /\ Fatal(m, "get_duration_failed")
                /\ parsed0' = parsed0
             ELSE IF new_segments = <<>> THEN
                /\ Fatal(m, "no_segments")
                /\ parsed0' = parsed0
             ELSE
                /\ m' = [m EXCEPT !.segments = RestoreState(m.segments, new_segments),
                                  !.clip_start = window[1],
                                  !.clip_end = window[2],
                                  !.stages_status["parse"] = "completed"]
                /\ saved' = m'
                /\ parsed0' = m'.segments
                /\ pc' = "invalidate"
                /\ UNCHANGED <<raised, tts_engine>>
    /\ UNCHANGED <<mode, force_run, disk, clipWin, idx, saved0, disk0, prev, arg, res>>

(***************************************************************************)
(* Pipeline._invalidate_on_range_change                                    *)
(***************************************************************************)
\* what get_duration(clipped_video) returns when it returns
ClipDuration == clipWin[2] - clipWin[1]

RangeChanged(actual_duration, expected_duration) ==
    ~(Abs(actual_duration - expected_duration) <= RangeTolerance)

ResetSegment(seg) ==
    [seg EXCEPT !.ref_audio_path = NoPath,
                !.output_audio_path = NoPath,
                !.actual_duration = Null,
                !.status = "pending",
                !.error_msg = IF seg.status # "pending" THEN Null ELSE seg.error_msg]

InvalidatedManifest(mm) ==
    [mm EXCEPT !.clipped_video = NoPath,
               !.vocal_track = NoPath,
               !.bgm_track = NoPath,
               !.stages_status["clip"] = "pending",
               !.stages_status["extract"] = "pending",
               !.stages_status["process"] = "pending",
               !.stages_status["generate"] = "pending",
               !.segments = [k \in 1..Len(mm.segments) |-> ResetSegment(mm.segments[k])]]

\* the files the invalidation leaves on disk
InvalidatedDisk(mm, d) ==
    { f \in d :
        /\ f \notin {mm.clipped_video, mm.vocal_track, mm.bgm_track}
        /\ f # FullAudio
        /\ ~(f[1] \in {"seg", "ref"})
        /\ ~(f[1] \in {"dub", "dub_final"}) }   \* glob dub_*.wav

InvalidateOnRangeChange ==
    /\ pc = "invalidate"
    /\ LET probe == <<"get_duration_clip", 0>>
           expected_duration == m.clip_end - m.clip_start
       IN
       IF ~Exists(m.clipped_video, disk)
         THEN UNCHANGED <<m, saved, disk, calls, fails, events>>
         ELSE \E ok \in BOOLEAN :
                /\ ~ok => CanFail
                /\ Called(probe, ok)
                /\ IF ok /\ RangeChanged(ClipDuration, expected_duration)
                     THEN /\ m' = InvalidatedManifest(m)
                          /\ disk' = InvalidatedDisk(m, disk)
                          /\ saved' = m'
                     ELSE UNCHANGED <<m, saved, disk>>
    /\ pc' = "clip"
    /\ UNCHANGED <<mode, force_run, clipWin, idx, tts_engine, raised,
                   saved0, disk0, prev, arg, res, parsed0>>

(***************************************************************************)
(* Stage 2: clip                                                           *)
(***************************************************************************)
\* run(): if self._is_stage_completed("clip"): skip
SkipClip ==
    /\ pc = "clip"
    /\ IsStageCompleted(m, disk, "clip")
    /\ pc' = "extract"
    /\ UNCHANGED <<mode, force_run, m, saved, disk, clipWin, idx, tts_engine, calls,
                   fails, raised, saved0, disk0, prev, arg, res, parsed0, events>>

\* Pipeline._stage_clip_video
StageClipVideo ==
    /\ pc = "clip"
    /\ ~IsStageCompleted(m, disk, "clip")
    /\ IF ClipFile \in disk
         THEN /\ m' = [m EXCEPT !.clipped_video = ClipFile]
              /\ saved' = m'
              /\ pc' = "extract"
              /\ UNCHANGED <<disk, clipWin, calls, fails, events, raised, tts_engine>>
         ELSE \E ok \in BOOLEAN :
                /\ ~ok => CanFail
                /\ Called(<<"clip_video", 0>>, ok)
                /\ IF ok
                     THEN /\ disk' = disk \cup {ClipFile}
                          /\ clipWin' = <<m.clip_start, m.clip_end>>
                          /\ m' = [m EXCEPT !.clipped_video = ClipFile,
                                            !.stages_status["clip"] = "completed"]
                          /\ saved' = m'
                          /\ pc' = "extract"
                          /\ UNCHANGED <<raised, tts_engine>>
                     ELSE /\ Fatal(m, "clip_video_failed")
                          /\ UNCHANGED <<disk, clipWin>>
    /\ UNCHANGED <<mode, force_run, idx, saved0, disk0, prev, arg, res, parsed0>>

(***************************************************************************)
(* Stage 3: extract-vocals                                                 *)
(***************************************************************************)
SkipExtract ==
    /\ pc = "extract"
    /\ IsStageCompleted(m, disk, "extract")
    /\ pc' = "process"
    /\ idx' = 1
    /\ UNCHANGED <<mode, force_run, m, saved, disk, clipWin, tts_engine, calls,
                   fails, raised, saved0, disk0, prev, arg, res, parsed0, events>>

\* separate_audio returned: the separated tracks are recorded
SeparationDone(mm) ==
    [mm EXCEPT !.vocal_track = VocalsFile,
               !.bgm_track = BgmFile,
               !.stages_status["extract"] = "completed"]

\* a fallback that keeps recording a background track
SeparationFallbackKeepsBgm(mm) ==
    [mm EXCEPT !.vocal_track = FullAudio, !.bgm_track = BgmFile]

\* separate_audio raised: fall back to the mixed audio as the vocal track
SeparationFallback(mm) ==
    [mm EXCEPT !.vocal_track = FullAudio, !.bgm_track = NoPath]

\* Pipeline._stage_extract_audio
StageExtractAudio ==
    /\ pc = "extract"
    /\ ~IsStageCompleted(m, disk, "extract")
    /\ IF VocalsFile \in disk /\ BgmFile \in disk
         THEN /\ m' = [m EXCEPT !.vocal_track = VocalsFile, !.bgm_track = BgmFile]
              /\ saved' = m'
              /\ pc' = "process"
              /\ UNCHANGED <<disk, calls, fails, events, raised, tts_engine>>
         ELSE \E exOk \in BOOLEAN, sepOk \in BOOLEAN :
                LET needExtract == FullAudio \notin disk
                    ex == <<"extract_audio", 0>>
                    sep == <<"separate_audio", 0>>
                    extracted == ~needExtract \/ exOk
                    nfail == (IF extracted THEN 0 ELSE 1)
                             + (IF extracted /\ ~sepOk THEN 1 ELSE 0)
                IN
                /\ ~needExtract => exOk
                /\ ~extracted => sepOk          \* separation not reached: one outcome
                /\ exOk => Exists(m.clipped_video, disk)   \* ffmpeg reads the clip
                /\ events + nfail <= MaxEvents
                /\ events' = events + nfail
                /\ calls' = calls \cup (IF needExtract THEN {ex} ELSE {})
                                  \cup (IF extracted THEN {sep} ELSE {})
                /\ fails' = fails \cup (IF extracted THEN {} ELSE {ex})
                                  \cup (IF extracted /\ ~sepOk THEN {sep} ELSE {})
                /\ IF ~extracted
                     THEN /\ Fatal(m, "extract_audio_failed")
                          /\ disk' = disk
                     ELSE /\ IF sepOk
                               THEN /\ disk' = disk \cup {FullAudio, VocalsFile, BgmFile}
                                    /\ m' = SeparationDone(m)
                               ELSE /\ disk' = disk \cup {FullAudio}
                                    /\ m' = SeparationFallback(m)
                          /\ saved' = m'
                          /\ pc' = "process"
                          /\ UNCHANGED <<raised, tts_engine>>
    /\ idx' = 1
    /\ UNCHANGED <<mode, force_run, clipWin, saved0, disk0, prev, arg, res, parsed0>>

(***************************************************************************)
(* Stage 4: Pipeline._stage_process_segments, one segment per step         *)
(***************************************************************************)
SetSeg(mm, k, seg) == [mm EXCEPT !.segments[k] = seg]

\* except Exception as e: seg.status = "error"; seg.error_msg = str(e)
\* a failure handler that records the message but leaves the status as it is
SegmentErrorKeepsStatus(seg, msg) == [seg EXCEPT !.error_msg = msg]

SegmentError(seg, msg) == [seg EXCEPT !.status = "error", !.error_msg = msg]

ProcessSegment ==
    /\ pc = "process"
    /\ idx <= Len(m.segments)
    /\ LET seg == m.segments[idx]
           expected_ref == RefFile(seg.id)
       IN
       IF expected_ref \in disk
         THEN /\ m' = SetSeg(m, idx, [seg EXCEPT !.ref_audio_path = expected_ref])
              /\ UNCHANGED <<saved, disk, calls, fails, events>>
         ELSE \E ok \in BOOLEAN :
                /\ ~ok => CanFail
                /\ ok => Exists(m.vocal_track, disk)     \* ffmpeg reads the vocal track
                /\ Called(<<"process_segment", idx>>, ok)
                /\ IF ok
                     THEN /\ disk' = disk \cup {SegFile(seg.id)}
                          /\ m' = SetSeg(m, idx, [seg EXCEPT !.ref_audio_path = SegFile(seg.id)])
                     ELSE /\ disk' = disk
                          /\ m' = SetSeg(m, idx, SegmentError(seg, "process_segment_failed"))
                /\ saved' = m'
    /\ idx' = idx + 1
    /\ UNCHANGED <<pc, mode, force_run, clipWin, tts_engine, raised,
                   saved0, disk0, prev, arg, res, parsed0>>

\* a stage end that hands over to compose, leaving synthesize out
ProcessEndSkipsSynthesize ==
    /\ pc = "process"
    /\ idx > Len(m.segments)
    /\ m' = [m EXCEPT !.stages_status["process"] = "completed"]
    /\ saved' = m'
    /\ pc' = "merge"
    /\ idx' = 0
    /\ UNCHANGED <<mode, force_run, disk, clipWin, tts_engine, calls, fails, raised,
                   saved0, disk0, prev, arg, res, parsed0, events>>

ProcessEnd ==
    /\ pc = "process"
    /\ idx > Len(m.segments)
    /\ m' = [m EXCEPT !.stages_status["process"] = "completed"]
    /\ saved' = m'
    /\ pc' = "generate"
    /\ idx' = 0
    /\ UNCHANGED <<mode, force_run, disk, clipWin, tts_engine, calls, fails, raised,
                   saved0, disk0, prev, arg, res, parsed0, events>>

(***************************************************************************)
(* Stage 5: Pipeline._stage_generate_dubbing                               *)
(***************************************************************************)
\* s.status == "success" and s.output_audio_path and Path(...).exists()
AlreadyDubbed(seg, d) ==
    seg.status = "success" /\ Exists(seg.output_audio_path, d)

\* the loop's second test: seg.status == "error" or not seg.ref_audio_path
NotSynthesizable(seg) ==
    seg.status = "error" \/ seg.ref_audio_path = NoPath

GenerateBegin ==
    /\ pc = "generate"
    /\ idx = 0
    /\ IF \A k \in 1..Len(m.segments) : AlreadyDubbed(m.segments[k], disk)
         THEN /\ m' = [m EXCEPT !.stages_status["generate"] = "completed"]
              /\ saved' = m'
              /\ pc' = "merge"
              /\ UNCHANGED <<idx, tts_engine>>
         ELSE /\ tts_engine' = "created"
              /\ idx' = 1
              /\ UNCHANGED <<pc, m, saved>>
    /\ UNCHANGED <<mode, force_run, disk, clipWin, calls, fails, raised,
                   saved0, disk0, prev, arg, res, parsed0, events>>

\* Outcomes of the post-processing block of one segment: which of its three
\* collaborator calls is the first to fail ("none": all three return).
PostOutcomes == {"none", "get_duration_raw", "post_process_audio", "get_duration_final"}

\* the segment after generate() returned and the post-processing ended with outcome po
Synthesized(seg, po) ==
    LET raw == DubFile(seg.id)
        final == DubFinalFile(seg.id)
        s1 == [seg EXCEPT !.output_audio_path = raw, !.status = "success"]
    IN CASE po = "get_duration_raw"   -> s1
         [] po = "post_process_audio" -> [s1 EXCEPT !.actual_duration = "raw"]
         [] po = "get_duration_final" -> [s1 EXCEPT !.actual_duration = "raw",
                                                    !.output_audio_path = final]
         [] OTHER                     -> [s1 EXCEPT !.actual_duration = "final",
                                                    !.output_audio_path = final]

\* the files the step wrote
SynthesizedFiles(seg, po) ==
    {DubFile(seg.id)} \cup
    (IF po \in {"none", "get_duration_final"} THEN {DubFinalFile(seg.id)} ELSE {})

GenerateSegment ==
    /\ pc = "generate"
    /\ idx >= 1
    /\ idx <= Len(m.segments)
    /\ LET seg == m.segments[idx] IN
       IF AlreadyDubbed(seg, disk) \/ NotSynthesizable(seg)
         THEN UNCHANGED <<m, saved, disk, calls, fails, events>>
         ELSE \E ok \in BOOLEAN, po \in PostOutcomes :
                LET tts == <<"tts_generate", idx>>
                    pp == <<po, idx>>
                    nfail == IF ~ok THEN 1 ELSE IF po # "none" THEN 1 ELSE 0
                IN
                /\ ~ok => po = "none"                   \* post-processing not reached
                /\ ok => Exists(seg.ref_audio_path, disk)  \* the engine reads the reference
                /\ events + nfail <= MaxEvents
                /\ events' = events + nfail
                /\ calls' = calls \cup {tts} \cup (IF ok THEN {<<"post_process", idx>>} ELSE {})
                /\ fails' = fails \cup (IF ~ok THEN {tts} ELSE IF po # "none" THEN {pp} ELSE {})
                /\ IF ok
                     THEN /\ m' = SetSeg(m, idx, Synthesized(seg, po))
                          /\ disk' = disk \cup SynthesizedFiles(seg, po)
                     ELSE /\ m' = SetSeg(m, idx, SegmentError(seg, "tts_generate_failed"))
                          /\ disk' = disk
                /\ saved' = m'
    /\ idx' = idx + 1
    /\ UNCHANGED <<pc, mode, force_run, clipWin, tts_engine, raised,
                   saved0, disk0, prev, arg, res, parsed0>>

GenerateEnd ==
    /\ pc = "generate"
    /\ idx > Len(m.segments)
    /\ m' = [m EXCEPT !.stages_status["generate"] = "completed"]
    /\ saved' = m'
    /\ pc' = "merge"
    /\ UNCHANGED <<mode, force_run, disk, clipWin, idx, tts_engine, calls, fails, raised,
                   saved0, disk0, prev, arg, res, parsed0, events>>

(***************************************************************************)
(* Stage 6: Pipeline._stage_merge_output, then the end of run()            *)
(***************************************************************************)
\* AudioMerger.create_dubbed_track: valid_segments
ValidSegments(segs) ==
    { k \in 1..Len(segs) : segs[k].status = "success" /\ segs[k].output_audio_path # NoPath }

B2N(b) == IF b THEN 1 ELSE 0

StageMergeOutput ==
    /\ pc = "merge"
    /\ LET valid == ValidSegments(m.segments)
           inputsExist == \A k \in valid : m.segments[k].output_audio_path \in disk
           hasVocal == Exists(m.vocal_track, disk)
           hasBgm == Exists(m.bgm_track, disk)
           m1 == [m EXCEPT !.dubbed_track = DubTrackFile]
       IN
       IF valid = {}
         THEN /\ Fatal(m, "no_valid_segments")
              /\ UNCHANGED <<disk, calls, fails, events>>
         ELSE \E dubOk \in BOOLEAN, gapOk \in BOOLEAN, bgmOk \in BOOLEAN, encOk \in BOOLEAN :
                LET gapTried == dubOk /\ hasVocal
                    bgmTried == dubOk /\ hasBgm
                    nfail == B2N(~dubOk) + B2N(gapTried /\ ~gapOk)
                             + B2N(bgmTried /\ ~bgmOk) + B2N(dubOk /\ ~encOk)
                IN
                /\ dubOk => inputsExist                \* ffmpeg reads every clip
                /\ ~gapTried => gapOk                  \* calls not reached: one outcome
                /\ ~bgmTried => bgmOk
                /\ ~dubOk => encOk
                /\ encOk /\ dubOk => Exists(m.clipped_video, disk)
                /\ events + nfail <= MaxEvents
                /\ events' = events + nfail
                /\ calls' = calls \cup {<<"create_dubbed_track", 0>>}
                        \cup (IF gapTried THEN {<<"create_gap_vocal_track", 0>>} ELSE {})
                        \cup (IF bgmTried THEN {<<"mix_with_bgm", 0>>} ELSE {})
                        \cup (IF dubOk THEN {<<"merge_to_video", 0>>} ELSE {})
                /\ fails' = fails
                        \cup (IF ~dubOk THEN {<<"create_dubbed_track", 0>>} ELSE {})
                        \cup (IF gapTried /\ ~gapOk THEN {<<"create_gap_vocal_track", 0>>} ELSE {})
                        \cup (IF bgmTried /\ ~bgmOk THEN {<<"mix_with_bgm", 0>>} ELSE {})
                        \cup (IF dubOk /\ ~encOk THEN {<<"merge_to_video", 0>>} ELSE {})
                /\ IF ~dubOk
                     THEN /\ Fatal(m, "create_dubbed_track_failed")
                          /\ disk' = disk
                     ELSE /\ disk' = disk \cup {DubTrackFile}
                                \cup (IF gapTried /\ gapOk THEN {GapVocalFile, CombinedFile} ELSE {})
                                \cup (IF bgmTried /\ bgmOk THEN {MixedFile} ELSE {})
                                \cup (IF encOk THEN {FinalVideoFile} ELSE {})
                          /\ IF encOk
                               THEN /\ m' = [m1 EXCEPT !.final_video = FinalVideoFile,
                                                       !.stages_status["merge"] = "completed",
                                                       !.status = "completed"]
                                    /\ saved' = m'
                                    /\ tts_engine' = Unload(tts_engine)
                                    /\ pc' = "done"
                                    /\ raised' = raised
                               ELSE Fatal(m1, "merge_to_video_failed")
    /\ UNCHANGED <<mode, force_run, clipWin, idx, saved0, disk0, prev, arg, res, parsed0>>

(***************************************************************************)
(* The process is terminated during prepare-segments or synthesize: at a   *)
(* point between two segments, or inside a segment's step after the        *)
(* collaborator call has returned and before the manifest is saved again.  *)
(* What is in memory is lost; the manifest file and the disk remain.       *)
(***************************************************************************)
Terminate ==
    /\ pc \in {"process", "generate"}
    /\ events < MaxEvents
    /\ events' = events + 1
    /\ LET inLoop == idx >= 1 /\ idx <= Len(m.segments)
           seg == m.segments[idx]
           cutting == pc = "process" /\ inLoop /\ RefFile(seg.id) \notin disk
                         /\ Exists(m.vocal_track, disk)
           speaking == pc = "generate" /\ inLoop /\ ~AlreadyDubbed(seg, disk)
                          /\ ~NotSynthesizable(seg)
       IN
       \/ /\ prev' = calls \ fails
          /\ UNCHANGED <<saved, disk>>
       \/ /\ cutting
          /\ prev' = (calls \ fails) \cup {<<"process_segment", idx>>}
          /\ disk' = disk \cup {SegFile(seg.id)}
          /\ saved' = saved
       \/ /\ speaking
          /\ prev' = (calls \ fails) \cup {<<"tts_generate", idx>>}
          /\ disk' = disk \cup {DubFile(seg.id)}
          /\ saved' = SetSeg(m, idx, [seg EXCEPT !.status = "processing"])
    /\ pc' = "terminated"
    /\ UNCHANGED <<mode, force_run, m, clipWin, idx, tts_engine, calls, fails, raised,
                   saved0, disk0, parsed0, arg, res>>

(***************************************************************************)
(* What a run knows about the run before it                                *)
(***************************************************************************)
InRun == pc # "idle"
AfterParse == pc \in {"invalidate", "clip", "extract", "process", "generate", "merge", "done"}
AfterClip == pc \in {"extract", "process", "generate", "merge", "done"}
AfterGenerate == pc \in {"merge", "done"}

\* the segments and the window the parse stage derives in mode md
ModeSegments(md) ==
    IF md = "full" THEN Load(Subs, 0, Infinity, 0)
    ELSE Load(Subs, DemoCfg(md).start, DemoCfg(md).end, DemoCfg(md).max)

ModeWindow(md) ==
    IF md = "full" THEN <<0, VideoDuration>>
    ELSE GetVideoClipTimes(ModeSegments(md), ClipPadding)

\* the loaded manifest records a completed run: every stage flag completed, every
\* segment success, every artifact it names on disk
PrevComplete ==
    /\ saved0 # NoManifest
    /\ saved0.status = "completed"
    /\ \A st \in StageNames : saved0.stages_status[st] = "completed"
    /\ saved0.segments # <<>>
    /\ \A k \in 1..Len(saved0.segments) :
          /\ saved0.segments[k].status = "success"
          /\ Exists(saved0.segments[k].ref_audio_path, disk0)
          /\ Exists(saved0.segments[k].output_audio_path, disk0)
    /\ \A f \in {saved0.clipped_video, saved0.vocal_track, saved0.bgm_track,
                 saved0.dubbed_track, saved0.final_video} : Exists(f, disk0)

\* this run has the mode and window of the run that wrote the loaded manifest
SameAsPrevious ==
    /\ saved0 # NoManifest
    /\ <<saved0.clip_start, saved0.clip_end>> = ModeWindow(mode)
    /\ Len(saved0.segments) = Len(ModeSegments(mode))
    /\ \A k \in 1..Len(saved0.segments) :
          SegKey(saved0.segments[k]) = SegKey(ModeSegments(mode)[k])

(***************************************************************************)
(* C1: a run over a completed and verified project, with the same mode and *)
(* window and without the force flag, makes no collaborator call at all    *)
(* and returns the final_video path the manifest already records.          *)
(***************************************************************************)
C1_CompletedRerunCallsNothing ==
    (InRun /\ ~force_run /\ PrevComplete /\ SameAsPrevious)
        => /\ calls = {}
           /\ pc # "failed"
           /\ pc = "done" => m.final_video = saved0.final_video

(***************************************************************************)
(* The invalidation step, as the claims about it read it                   *)
(***************************************************************************)
ClipProbe == <<"get_duration_clip", 0>>
OldClipExists == Exists(m.clipped_video, disk)
WindowLength == m.clip_end - m.clip_start

\* the step reset the stages and segments that depend on the window
ResetByInvalidation ==
    /\ \A st \in {"clip", "extract", "process", "generate"} : m'.stages_status[st] = "pending"
    /\ m'.clipped_video = NoPath /\ m'.vocal_track = NoPath /\ m'.bgm_track = NoPath
    /\ Len(m'.segments) = Len(m.segments)
    /\ \A k \in 1..Len(m'.segments) :
          /\ m'.segments[k].ref_audio_path = NoPath
          /\ m'.segments[k].output_audio_path = NoPath
          /\ m'.segments[k].actual_duration = Null
          /\ m'.segments[k].status = "pending"
    /\ saved' = m'

UntouchedByInvalidation == m' = m /\ saved' = saved /\ disk' = disk

(***************************************************************************)
(* C2: in the invalidation check with a previously clipped video on disk,  *)
(* a clip whose duration differs from clip_end - clip_start by more than   *)
(* 2 s gets clip, extract, process, generate and every segment reset; a    *)
(* difference of at most 2 s changes nothing and deletes nothing.          *)
(***************************************************************************)
C2_InvalidationOnDuration ==
    [][ (pc = "invalidate" /\ pc' = "clip" /\ OldClipExists)
          => IF Abs(ClipDuration - WindowLength) > RangeTolerance
               THEN ResetByInvalidation
               ELSE UntouchedByInvalidation ]_vars

\* What does hold of the step: the rule is applied to the duration the probe
\* returns, exactly 2 s counting as unchanged; a probe that fails leaves the
\* old clip and everything cut from it in place whatever the window is.
InvalidationOnProbedDuration ==
    [][ (pc = "invalidate" /\ pc' = "clip" /\ OldClipExists)
          => IF ClipProbe \notin fails' /\ Abs(ClipDuration - WindowLength) > RangeTolerance
               THEN ResetByInvalidation
               ELSE UntouchedByInvalidation ]_vars

\* the invalidation has reset a project whose clip stage had been completed
InvalidationReached ==
    /\ pc = "clip"
    /\ ClipProbe \in calls \ fails
    /\ saved0 # NoManifest /\ saved0.stages_status["clip"] = "completed"
    /\ m.stages_status["clip"] = "pending"
    /\ m.clipped_video = NoPath
    /\ ClipFile \notin disk

\* the boundary case: a clip exactly 2 s off the window was probed and kept
BoundaryReached ==
    /\ pc = "clip"
    /\ ClipProbe \in calls \ fails
    /\ Abs(ClipDuration - WindowLength) = RangeTolerance
    /\ ClipFile \in disk

(***************************************************************************)
(* C3: after the clip stage, a clip file the run goes on with was cut for  *)
(* the manifest's current window [clip_start, clip_end] (stated for runs   *)
(* that loaded a manifest and in which no collaborator call failed).       *)
(***************************************************************************)
C3_ReusedClipCutForWindow ==
    (AfterClip /\ saved0 # NoManifest /\ fails = {} /\ Exists(m.clipped_video, disk))
        => clipWin = <<m.clip_start, m.clip_end>>

WindowDiffers ==
    /\ saved0 # NoManifest
    /\ saved0.segments # <<>>
    /\ <<saved0.clip_start, saved0.clip_end>> # <<m.clip_start, m.clip_end>>

CarriedOver(k) ==
    /\ parsed0[k].status = "success"
    /\ Exists(parsed0[k].output_audio_path, disk0)

(***************************************************************************)
(* C4: after a re-extraction with a different window, a segment whose key  *)
(* matched a success segment of the previous run and whose output file was *)
(* on disk when the run began keeps status success and its output path and *)
(* is not sent to synthesis (stated for runs without a failing call).      *)
(***************************************************************************)
C4_CarriedSegmentsNotRedone ==
    (AfterParse /\ pc # "invalidate" /\ WindowDiffers /\ fails = {})
        => \A k \in 1..Len(parsed0) :
              CarriedOver(k)
                 => /\ m.segments[k].status = "success"
                    /\ m.segments[k].output_audio_path = parsed0[k].output_audio_path
                    /\ <<"tts_generate", k>> \notin calls

LoadedWithoutFile(k) ==
    /\ parsed0[k].status = "success"
    /\ ~Exists(parsed0[k].output_audio_path, disk0)

(***************************************************************************)
(* C5: when the compose stage starts, every segment with status success    *)
(* has an output_audio_path that names an existing file, and a segment     *)
(* that was loaded as success with its file missing has been synthesized   *)
(* again in this run (or is no longer success).                            *)
(***************************************************************************)
C5_SuccessHasFileAtCompose ==
    pc = "merge"
        => \A k \in 1..Len(m.segments) :
              m.segments[k].status = "success"
                 => /\ Exists(m.segments[k].output_audio_path, disk)
                    /\ LoadedWithoutFile(k) => <<"tts_generate", k>> \in calls \ fails

\* What does hold: the file named by a success segment exists at compose.
SuccessNamesExistingFile ==
    pc = "merge"
        => \A k \in 1..Len(m.segments) :
              m.segments[k].status = "success"
                 => Exists(m.segments[k].output_audio_path, disk)

\* a segment loaded as success without its file was synthesized again
ResynthesisReached ==
    /\ pc = "merge"
    /\ \E k \in 1..Len(m.segments) :
          /\ LoadedWithoutFile(k)
          /\ <<"tts_generate", k>> \in calls \ fails
          /\ m.segments[k].status = "success"

TtsFailedNow == pc = "generate" /\ idx >= 1 /\ <<"tts_generate", idx>> \in fails' \ fails

OnlyOwnSegmentMarked ==
    /\ m'.segments[idx] = [m.segments[idx] EXCEPT !.status = "error",
                               !.error_msg = m'.segments[idx].error_msg]
    /\ m'.segments[idx].error_msg # Null
    /\ Len(m'.segments) = Len(m.segments)
    /\ \A j \in 1..Len(m.segments) : j # idx => m'.segments[j] = m.segments[j]
    /\ pc' = "generate" /\ idx' = idx + 1

(***************************************************************************)
(* C6 (as stated): a failing synthesis call changes only the status and    *)
(* error_msg of its own segment; every later segment that has a reference  *)
(* clip and is not in error is still sent to synthesis in the same run,    *)
(* and the stage flag generate is completed at the end.                    *)
(***************************************************************************)
C6_Original ==
    /\ [][ TtsFailedNow => OnlyOwnSegmentMarked ]_vars
    /\ [](AfterGenerate
             => /\ m.stages_status["generate"] = "completed"
                /\ \A j, k \in 1..Len(m.segments) :
                      (/\ j < k
                       /\ <<"tts_generate", j>> \in fails
                       /\ m.segments[k].ref_audio_path # NoPath
                       /\ m.segments[k].status # "error")
                         => <<"tts_generate", k>> \in calls)

(***************************************************************************)
(* C6 (amended): a failing synthesis call changes only the status and      *)
(* error_msg of its own segment and the loop goes on; when the stage has   *)
(* ended its flag is completed and every segment that has a reference clip *)
(* and is not in error either was synthesized in this run or was already   *)
(* dubbed (carried as success from the parse, its output file on disk) and *)
(* for that reason skipped.                                                *)
(***************************************************************************)
C6_SynthesisFailureIsLocal ==
    /\ [][ TtsFailedNow => OnlyOwnSegmentMarked ]_vars
    /\ [](AfterGenerate
             => /\ m.stages_status["generate"] = "completed"
                /\ \A k \in 1..Len(m.segments) :
                      (m.segments[k].ref_audio_path # NoPath /\ m.segments[k].status # "error")
                         => \/ <<"tts_generate", k>> \in calls \ fails
                            \/ /\ parsed0[k].status = "success"
                               /\ AlreadyDubbed(m.segments[k], disk))

\* the first segment's synthesis failed and the second was still synthesized
C6_Witness ==
    /\ pc = "merge"
    /\ Len(m.segments) = 2
    /\ <<"tts_generate", 1>> \in fails
    /\ m.segments[1].status = "error"
    /\ <<"tts_generate", 2>> \in calls \ fails
    /\ m.segments[2].status = "success"

FatalCalls == { <<"get_duration_video", 0>>, <<"clip_video", 0>>, <<"extract_audio", 0>>,
                <<"create_dubbed_track", 0>>, <<"merge_to_video", 0>> }

(***************************************************************************)
(* C7: a run in which the parse found segments and no clip, extraction,    *)
(* composition or encoding call failed ends completed with a final video,  *)
(* whatever segments ended in error.                                       *)
(***************************************************************************)
C7_CompletesWhateverSegmentsFailed ==
    (pc \in {"done", "failed"} /\ parsed0 # <<>> /\ fails \cap FatalCalls = {})
        => /\ pc = "done"
           /\ m.status = "completed"
           /\ Exists(m.final_video, disk)

StageRank(st) ==
    CASE st = "parse" -> 1 [] st = "clip" -> 2 [] st = "extract" -> 3
      [] st = "process" -> 4 [] st = "generate" -> 5 [] OTHER -> 6

CallStage(op) ==
    CASE op \in {"get_duration_video"} -> "parse"
      [] op \in {"get_duration_clip", "clip_video"} -> "clip"
      [] op \in {"extract_audio", "separate_audio"} -> "extract"
      [] op \in {"process_segment"} -> "process"
      [] op \in {"tts_generate", "post_process"} -> "generate"
      [] OTHER -> "merge"

FailureStage(msg) ==
    CASE msg \in {"get_duration_failed", "no_segments"} -> "parse"
      [] msg = "clip_video_failed" -> "clip"
      [] msg = "extract_audio_failed" -> "extract"
      [] OTHER -> "merge"

(***************************************************************************)
(* C8: when run() fails, the manifest file holds status error and the      *)
(* message of the failure, the failure is raised, and nothing of a later   *)
(* stage has been done.                                                    *)
(***************************************************************************)
C8_FatalFailurePersistedAndRaised ==
    pc = "failed"
        => /\ raised # Null
           /\ saved # NoManifest
           /\ saved.status = "error"
           /\ saved.error_msg = raised
           /\ \A c \in calls : StageRank(CallStage(c[1])) <= StageRank(FailureStage(raised))
           /\ FailureStage(raised) # "merge" => tts_engine = "none"
           /\ \A st \in StageNames :
                 (StageRank(st) > StageRank(FailureStage(raised))
                    /\ saved.stages_status[st] = "completed")
                    => saved0 # NoManifest /\ saved0.stages_status[st] = "completed"

\* the clip call failed: the run stopped there
C8_Witness ==
    /\ pc = "failed"
    /\ raised = "clip_video_failed"
    /\ <<"clip_video", 0>> \in fails

SeparationFailed == InRun /\ <<"separate_audio", 0>> \in fails

(***************************************************************************)
(* C9: after a failed separation call the run goes on: vocal_track is the  *)
(* full mixed audio and bgm_track is None, in memory and in the manifest   *)
(* file; prepare-segments, synthesize and compose run, and the composition *)
(* mixes no background track.                                              *)
(***************************************************************************)
C9_SeparationFailureFallsBack ==
    SeparationFailed
        => /\ m.vocal_track = FullAudio /\ m.bgm_track = NoPath
           /\ saved.vocal_track = FullAudio /\ saved.bgm_track = NoPath
           /\ <<"mix_with_bgm", 0>> \notin calls
           /\ pc = "failed" => FailureStage(raised) = "merge"
           /\ pc \in {"done", "failed"}
                 => /\ m.stages_status["process"] = "completed"
                    /\ m.stages_status["generate"] = "completed"
                    /\ \/ <<"create_dubbed_track", 0>> \in calls
                       \/ ValidSegments(m.segments) = {}

\* the separation failed and the run still produced its final video
C9_Witness ==
    /\ pc = "done"
    /\ <<"separate_audio", 0>> \in fails
    /\ <<"create_dubbed_track", 0>> \in calls
    /\ Exists(m.final_video, disk)

(***************************************************************************)
(* C10: after construction with the force flag the manifest is fresh and   *)
(* no derived artifact of the project is on disk, the final video          *)
(* included.                                                               *)
(***************************************************************************)
C10_ForceRestartLeavesNothing ==
    (pc = "start" /\ force_run)
        => /\ m = FreshManifest
           /\ saved = NoManifest
           /\ disk = {}

\* what a step out of a stage shows of the stage function having run
NothingDone == m' = m /\ saved' = saved /\ disk' = disk /\ calls' = calls
NewCalls == calls' \ calls
FlagButNoFile(stage_name, path) ==
    m.stages_status[stage_name] = "completed" /\ ~Exists(path, disk)

ClipStageRan ==
    \/ <<"clip_video", 0>> \in NewCalls
    \/ ClipFile \in disk /\ m'.clipped_video = ClipFile /\ saved' = m'

ExtractStageRan ==
    \/ NewCalls \cap {<<"extract_audio", 0>>, <<"separate_audio", 0>>} # {}
    \/ /\ VocalsFile \in disk /\ BgmFile \in disk
       /\ m'.vocal_track = VocalsFile /\ m'.bgm_track = BgmFile /\ saved' = m'

MergeStageRan ==
    \/ <<"create_dubbed_track", 0>> \in NewCalls
    \/ ValidSegments(m.segments) = {} /\ raised' = "no_valid_segments"

(***************************************************************************)
(* C11: clip, extract-vocals and compose are passed over as completed only *)
(* with the stage flag completed and the recorded file (clipped_video,     *)
(* vocal_track, final_video) on disk; in every other case the stage        *)
(* function runs, and with the flag completed but the file missing it      *)
(* makes its collaborator call again.                                      *)
(***************************************************************************)
C11_DoubleVerification ==
    /\ [][ (pc = "clip" /\ pc' # "clip")
             => /\ IF m.stages_status["clip"] = "completed" /\ Exists(m.clipped_video, disk)
                     THEN NothingDone ELSE ClipStageRan
                /\ FlagButNoFile("clip", m.clipped_video) => <<"clip_video", 0>> \in NewCalls ]_vars
    /\ [][ (pc = "extract" /\ pc' # "extract")
             => /\ IF m.stages_status["extract"] = "completed" /\ Exists(m.vocal_track, disk)
                     THEN NothingDone ELSE ExtractStageRan
                /\ FlagButNoFile("extract", m.vocal_track)
                      => NewCalls \cap {<<"extract_audio", 0>>, <<"separate_audio", 0>>} # {} ]_vars
    /\ [][ (pc = "merge" /\ pc' # "merge") => MergeStageRan ]_vars

\* the clip flag was completed, the clip file was gone, and the clip was cut again
C11_Witness ==
    /\ pc = "extract"
    /\ saved0 # NoManifest /\ saved0.stages_status["clip"] = "completed"
    /\ saved0.clipped_video = ClipFile /\ ClipFile \notin disk0
    /\ <<"clip_video", 0>> \in calls \ fails
    /\ Exists(m.clipped_video, disk)

AfterTermination == pc \notin {"idle", "terminated"} /\ prev # {}

RedoneSegments ==
    { k \in 1..Len(m.segments) :
        \E op \in {"process_segment", "tts_generate"} : <<op, k>> \in prev \cap calls }

(***************************************************************************)
(* C12: in the run that follows a termination during prepare-segments or   *)
(* synthesize, with unchanged inputs and no force flag, at most one        *)
(* segment has a collaborator call performed again that had returned       *)
(* before the termination.                                                 *)
(***************************************************************************)
C12_TerminationLosesAtMostOne ==
    (AfterTermination /\ AfterParse /\ ~force_run /\ SameAsPrevious)
        => Cardinality(RedoneSegments) <= 1

\* the invalidation check of this run found the old clip off the window and reset
Invalidated ==
    /\ ClipProbe \in calls \ fails
    /\ ClipFile \notin disk \/ <<"clip_video", 0>> \in calls

(***************************************************************************)
(* C13: in a run without the force flag and without a window invalidation, *)
(* a segment loaded as success whose output file exists keeps status       *)
(* success, output_audio_path and actual_duration through every stage,     *)
(* whatever the collaborator calls of the run return.                      *)
(***************************************************************************)
C13_CompletedSegmentsUntouched ==
    (AfterParse /\ ~force_run /\ ~Invalidated)
        => \A k \in 1..Len(parsed0) :
              CarriedOver(k)
                 => /\ m.segments[k].status = "success"
                    /\ m.segments[k].output_audio_path = parsed0[k].output_audio_path
                    /\ m.segments[k].actual_duration = parsed0[k].actual_duration

\* where the controller may go next from each position
NextPositions(p) ==
    CASE p = "start"      -> {"parse"}
      [] p = "parse"      -> {"invalidate", "failed"}
      [] p = "invalidate" -> {"clip"}
      [] p = "clip"       -> {"extract", "failed"}
      [] p = "extract"    -> {"process", "failed"}
      [] p = "process"    -> {"process", "generate"}
      [] p = "generate"   -> {"generate", "merge"}
      [] p = "merge"      -> {"done", "failed"}
      [] OTHER            -> {"idle", "start"}

\* the position at which each collaborator operation is called
PositionOfCall(op) ==
    CASE op = "get_duration_video" -> "parse"
      [] op = "get_duration_clip"  -> "invalidate"
      [] op = "clip_video"         -> "clip"
      [] op \in {"extract_audio", "separate_audio"} -> "extract"
      [] op = "process_segment"    -> "process"
      [] op \in {"tts_generate", "post_process"} -> "generate"
      [] OTHER                     -> "merge"

SegmentLoop == pc \in {"process", "generate"} /\ pc' = pc

(***************************************************************************)
(* C14: the stages run in the order parse, clip, extract-vocals,           *)
(* prepare-segments, synthesize, compose, each starting after the one      *)
(* before it has ended or been skipped; every collaborator call is made at *)
(* the position of its stage; in prepare-segments and synthesize the       *)
(* segments are taken one per step in id order, a segment's call being     *)
(* made only after the steps of all earlier segments.                      *)
(***************************************************************************)
C14_StrictlySequential ==
    /\ [][ /\ pc' \in NextPositions(pc) \cup {pc}
           /\ \A c \in NewCalls : PositionOfCall(c[1]) = pc
           /\ \A c \in NewCalls : c[1] \in {"process_segment", "tts_generate", "post_process"}
                                     => c[2] = idx /\ idx' = idx + 1
           /\ SegmentLoop => idx' = idx + 1 \/ (idx = 0 /\ idx' = 1)
           /\ pc' # pc /\ pc' \in {"process", "generate"} => idx' \in {0, 1} ]_vars
    /\ [](InRun => \A k \in 1..Len(m.segments) : m.segments[k].id = k)
    /\ [](pc = "process" => \A c \in calls : c[1] = "process_segment" => c[2] < idx)
    /\ [](pc = "generate" /\ idx >= 1 => \A c \in calls : c[1] = "tts_generate" => c[2] < idx)
    /\ [](pc = "generate" => m.stages_status["process"] = "completed")
    /\ [](pc = "merge" => m.stages_status["generate"] = "completed")

\* a run of two segments went through every stage, calling for each segment in turn
C14_Witness ==
    /\ pc = "done"
    /\ Len(m.segments) = 2
    /\ {<<"clip_video", 0>>, <<"separate_audio", 0>>, <<"process_segment", 1>>,
        <<"process_segment", 2>>, <<"tts_generate", 1>>, <<"tts_generate", 2>>,
        <<"merge_to_video", 0>>} \subseteq calls

\* segment idx is about to be handled by the prepare-segments stage of a resumed
\* run, and the reference clip an earlier run cut for it has been on disk since
\* this run began
ReferenceClipKept ==
    /\ pc = "process"
    /\ idx \in 1..Len(m.segments)
    /\ ~force_run
    /\ saved0 # NoManifest
    /\ SegFile(m.segments[idx].id) \in disk0 \cap disk
    /\ \E j \in 1..Len(saved0.segments) :
          /\ saved0.segments[j].id = m.segments[idx].id
          /\ SegKey(saved0.segments[j]) = SegKey(m.segments[idx])
          /\ saved0.segments[j].ref_audio_path = SegFile(m.segments[idx].id)

(***************************************************************************)
(* C22: in the prepare-segments stage of a resumed run, a segment whose    *)
(* reference clip was produced by that stage in an earlier run and has not *)
(* been deleted since is found on disk and skipped: process_segment is not *)
(* called again for it and its ref_audio_path is the existing clip.        *)
(***************************************************************************)
C22_ExistingReferenceClipSkipped ==
    [][ReferenceClipKept
          => /\ calls' = calls
             /\ m'.segments[idx].ref_audio_path = SegFile(m.segments[idx].id)]_vars

\* the reference-clip call for segment idx fails in this step
ReferenceClipFails ==
    /\ pc = "process"
    /\ idx \in 1..Len(m.segments)
    /\ <<"process_segment", idx>> \in fails' \ fails

\* every segment was attempted, or skipped because its ref file was found
AllAttemptedOrSkipped ==
    \A k \in 1..Len(m.segments) :
        \/ <<"process_segment", k>> \in calls
        \/ m.segments[k].ref_audio_path = RefFile(m.segments[k].id)

(***************************************************************************)
(* C25: in the prepare-segments stage a failure of process_segment for one *)
(* segment is recorded in that segment only (status error, error_msg set), *)
(* does not stop the loop and leaves every other segment as it was; once   *)
(* every segment has been attempted or skipped the stage flag process is   *)
(* completed and the manifest saved.                                       *)
(***************************************************************************)
C25_ReferenceClipFailureIsLocal ==
    /\ [][ReferenceClipFails
            => /\ Len(m'.segments) = Len(m.segments)
               /\ m'.segments[idx].status = "error"
               /\ m'.segments[idx].error_msg # Null
               /\ m'.segments[idx] = [m.segments[idx] EXCEPT
                                         !.status = "error",
                                         !.error_msg = m'.segments[idx].error_msg]
               /\ \A j \in 1..Len(m.segments) : j # idx => m'.segments[j] = m.segments[j]
               /\ [m' EXCEPT !.segments = m.segments] = m
               /\ saved' = m'
               /\ pc' = "process"
               /\ idx' = idx + 1]_vars
    /\ [][(pc = "process" /\ pc' # "process")
            => /\ AllAttemptedOrSkipped
               /\ pc' = "generate"
               /\ m'.stages_status["process"] = "completed"
               /\ m'.segments = m.segments
               /\ saved' = m']_vars

\* the first of two segments failed, the second was cut, the stage is over
C25_Witness ==
    /\ pc = "generate"
    /\ Len(m.segments) = 2
    /\ <<"process_segment", 1>> \in fails
    /\ <<"process_segment", 2>> \in calls \ fails
    /\ m.segments[1].status = "error"
    /\ m.segments[2].ref_audio_path = SegFile(2)
    /\ saved.stages_status["process"] = "completed"

\* post-processing of segment idx fails in this step, at one of the calls in ops
PostProcessingFails(ops) ==
    /\ pc = "generate"
    /\ idx \in 1..Len(m.segments)
    /\ <<"tts_generate", idx>> \in calls' \ fails'
    /\ \E po \in ops : <<po, idx>> \in fails' \ fails

UnprocessedClipKept ==
    /\ m'.segments[idx].output_audio_path = DubFile(m.segments[idx].id)
    /\ m'.segments[idx].status = "success"
    /\ DubFile(m.segments[idx].id) \in disk'
    /\ idx \in ValidSegments(m'.segments)
    /\ pc' = "generate"
    /\ idx' = idx + 1

(***************************************************************************)
(* C26: if post-processing (a duration probe, the speed adjustment or the  *)
(* loudness normalization) fails for a segment whose synthesis succeeded,  *)
(* the segment's output_audio_path is the unprocessed synthesized clip,    *)
(* the segment stays usable by composition, and the loop goes on with the  *)
(* next segment.                                                           *)
(***************************************************************************)
C26_PostProcessingFailureKeepsRawClip ==
    [][PostProcessingFails(PostOutcomes \ {"none"}) => UnprocessedClipKept]_vars

\* What does hold: the raw clip is kept when the first probe or post_process_audio
\* fails, and in every case the segment is usable and the loop goes on.
RawClipKeptUnlessFinalProbeFails ==
    /\ [][PostProcessingFails({"get_duration_raw", "post_process_audio"})
            => UnprocessedClipKept]_vars
    /\ [][PostProcessingFails(PostOutcomes \ {"none"})
            => /\ m'.segments[idx].status = "success"
               /\ Exists(m'.segments[idx].output_audio_path, disk')
               /\ pc' = "generate"
               /\ idx' = idx + 1]_vars

DistinctOutputs(segments) ==
    \A i, j \in 1..Len(segments) :
        i # j /\ segments[i].output_audio_path # NoPath
            => segments[i].output_audio_path # segments[j].output_audio_path

(***************************************************************************)
(* C34: in every reachable manifest state, in memory and persisted, no two *)
(* segments have the same non-null output_audio_path, also after a         *)
(* re-parse that gives new ids to segments carried over as success.        *)
(***************************************************************************)
C34_OutputPathsDistinct ==
    /\ DistinctOutputs(m.segments)
    /\ saved # NoManifest => DistinctOutputs(saved.segments)

\* within a first run (nothing carried over) the output paths are distinct
OutputPathsDistinctInFirstRun ==
    saved0 = NoManifest => DistinctOutputs(m.segments)

(***************************************************************************)
(* C37: whenever run() returns normally, the persisted manifest has status *)
(* completed, final_video set and all six stage flags completed, whichever *)
(* skip or fallback path each stage took.                                  *)
(***************************************************************************)
C37_ReturnRecordsAllStagesCompleted ==
    pc = "done"
        => /\ saved # NoManifest
           /\ saved.status = "completed"
           /\ saved.final_video # NoPath
           /\ \A st \in StageNames : saved.stages_status[st] = "completed"

\* what a normal return does record: status, final_video and the flags of the
\* stages that have no skip or fallback path
ReturnRecordsCompletion ==
    pc = "done"
        => /\ saved # NoManifest
           /\ saved.status = "completed"
           /\ saved.final_video = FinalVideoFile
           /\ \A st \in {"parse", "process", "generate", "merge"} :
                 saved.stages_status[st] = "completed"

\* a clip or extract flag is missing only after the existing-file branch or the
\* separation fallback (a failed separate_audio, or none called) was taken
MissingFlagOnlyOnSkipPaths ==
    pc = "done"
        => /\ saved.stages_status["clip"] # "completed"
                 => <<"clip_video", 0>> \notin calls
           /\ saved.stages_status["extract"] # "completed"
                 => <<"separate_audio", 0>> \notin calls \ fails

\* the prepare-segments stage is about to look at its first segment
AtProcessStart == pc = "process" /\ idx = 1
\* the segments of this run that the loaded manifest did not hold as success
NotSuccessBefore ==
    { k \in 1..Len(m.segments) : ~HasOldSegment(saved0.segments, SegKey(m.segments[k])) }
\* ... and that it held in status error or processing
LeftUnfinished ==
    { k \in 1..Len(m.segments) :
        \E j \in 1..Len(saved0.segments) :
            /\ SegKey(saved0.segments[j]) = SegKey(m.segments[k])
            /\ saved0.segments[j].status \in {"error", "processing"} }
CleanPending(seg) ==
    /\ seg.status = "pending"
    /\ seg.error_msg = Null
    /\ seg.ref_audio_path = NoPath
    /\ seg.output_audio_path = NoPath
    /\ seg.actual_duration = Null

(***************************************************************************)
(* C38: the parse stage carries over only success segments: at the start   *)
(* of the prepare-segments stage every segment that was not success in the *)
(* loaded manifest is pending with error_msg and paths cleared, and by the *)
(* end of that stage its reference clip has been attempted again.          *)
(***************************************************************************)
C38_UnfinishedSegmentsRetried ==
    saved0 # NoManifest
        => /\ AtProcessStart
                 => \A k \in NotSuccessBefore : CleanPending(m.segments[k])
           /\ pc \in {"generate", "merge", "done"}
                 => \A k \in NotSuccessBefore : <<"process_segment", k>> \in calls

\* a segment the earlier run left in error stands as pending at the start of
\* prepare-segments
C38_Witness ==
    /\ saved0 # NoManifest
    /\ AtProcessStart
    /\ \E k \in LeftUnfinished \cap NotSuccessBefore :
          /\ \E j \in 1..Len(saved0.segments) :
                /\ SegKey(saved0.segments[j]) = SegKey(m.segments[k])
                /\ saved0.segments[j].status = "error"
                /\ saved0.segments[j].error_msg # Null
          /\ CleanPending(m.segments[k])

\* the same for a segment left in status processing by a terminated run
ProcessingSegmentRetriedReached ==
    ~(/\ saved0 # NoManifest
      /\ pc \in {"generate", "merge", "done"}
      /\ \E k \in LeftUnfinished \cap NotSuccessBefore :
            /\ \E j \in 1..Len(saved0.segments) :
                  /\ SegKey(saved0.segments[j]) = SegKey(m.segments[k])
                  /\ saved0.segments[j].status = "processing"
            /\ <<"process_segment", k>> \in calls)

(***************************************************************************)
(* C40: in every persisted manifest, status completed implies that         *)
(* error_msg is None: a run that succeeds after a failed run of the same   *)
(* project leaves no message of the earlier failure.                       *)
(***************************************************************************)
C40_CompletedHasNoErrorMsg ==
    saved # NoManifest /\ saved.status = "completed" => saved.error_msg = Null

\* a completed manifest carries a message only when the manifest this run
\* loaded carried one, and a force-restart starts without one
ErrorMsgOnlyInherited ==
    /\ saved # NoManifest /\ saved.status = "completed" /\ saved.error_msg # Null
           => saved0 # NoManifest /\ saved0.error_msg = saved.error_msg
    /\ pc = "done" /\ force_run => saved.error_msg = Null

Next ==
    \/ LoseFile
    \/ Construct
    \/ Begin
    \/ ParseSubtitles
    \/ InvalidateOnRangeChange
    \/ SkipClip
    \/ StageClipVideo
    \/ SkipExtract
    \/ StageExtractAudio
    \/ ProcessSegment
    \/ ProcessEnd
    \/ GenerateBegin
    \/ GenerateSegment
    \/ GenerateEnd
    \/ StageMergeOutput

Spec == Init /\ [][Next]_vars

\* the same program in an environment that may also terminate the process
NextTerminating == Next \/ Terminate

SpecTerminating == Init /\ [][NextTerminating]_vars

(***************************************************************************)
(* The process dies inside _invalidate_on_range_change, after some of its  *)
(* deletions and before its save_manifest.  The deletions come in the      *)
(* order of the code; prev remembers the mode of the dead run and how many *)
(* deletion steps it had completed.                                        *)
(***************************************************************************)
DeletionOrder(mm, d) ==
    << {mm.clipped_video} \cap d,
       {mm.vocal_track} \cap d,
       {mm.bgm_track} \cap d,
       {FullAudio} \cap d,
       { f \in d : f[1] = "seg" },
       { f \in d : f[1] = "ref" },
       { f \in d : f[1] \in {"dub", "dub_final"} } >>
DeletedUpTo(mm, d, k) == UNION { DeletionOrder(mm, d)[j] : j \in 1..k }
InvalidationCut(md, k) == <<md, k>>

TerminateInvalidating ==
    /\ pc = "invalidate"
    /\ events < MaxEvents
    /\ Exists(m.clipped_video, disk)
    /\ RangeChanged(ClipDuration, m.clip_end - m.clip_start)
    /\ \E k \in 1..Len(DeletionOrder(m, disk)) :
          /\ disk' = disk \ DeletedUpTo(m, disk, k)
          /\ prev' = {InvalidationCut(mode, k)}
    /\ events' = events + 1
    /\ pc' = "terminated"
    /\ UNCHANGED <<mode, force_run, m, saved, clipWin, idx, tts_engine, calls, fails,
                   raised, saved0, disk0, parsed0, arg, res>>

NextInvalidating == Next \/ TerminateInvalidating

SpecInvalidating == Init /\ [][NextInvalidating]_vars

\* this run follows a death inside the invalidation of a run with the same mode
AfterCutInvalidation ==
    /\ ~force_run
    /\ \E k \in 1..Len(DeletionOrder(m, disk)) : InvalidationCut(mode, k) \in prev
\* the tracks, the reference clips and the results in use were made by this run
AllRederived ==
    /\ {<<"clip_video", 0>>, <<"extract_audio", 0>>, <<"separate_audio", 0>>}
           \subseteq calls \ fails
    /\ \A k \in 1..Len(m.segments) :
          m.segments[k].status = "success"
              => {<<"process_segment", k>>, <<"tts_generate", k>>} \subseteq calls \ fails

(***************************************************************************)
(* C36: when the process is terminated inside the invalidation step and    *)
(* the Controller is run again with the same parameters, the new run does  *)
(* not combine artifacts of the old window with the new clip: at the       *)
(* compose stage the tracks, reference clips and segment results are all   *)
(* re-derived in this run, or the invalidation was carried out again.      *)
(***************************************************************************)
C36_NoMixAfterCutInvalidation ==
    (AfterCutInvalidation /\ AfterGenerate) => (AllRederived \/ Invalidated)

\* after a death that followed the deletion of the full audio, the clip and
\* the tracks are all made again
TracksRederivedAfterLateCut ==
    (AfterCutInvalidation /\ AfterGenerate
        /\ \E k \in 4..Len(DeletionOrder(m, disk)) : InvalidationCut(mode, k) \in prev)
        => {<<"clip_video", 0>>, <<"extract_audio", 0>>, <<"separate_audio", 0>>}
               \subseteq calls \ fails

(***************************************************************************)
(* SubtitleParser examined on its own: load and get_video_clip_times are   *)
(* applied to subtitle files of up to MaxCues cues.  A cue is given by its *)
(* start, its length and the kind of its text:                             *)
(*   none   no text                 note   one line, empty once cleaned    *)
(*   zh     one Chinese line        en     one line without Chinese        *)
(*   zh_en  two lines, inline bilingual                                    *)
(*   en_ko  two lines, neither Chinese                                     *)
(* The k-th cue's tokens carry k, so that a segment tells its cue.         *)
(***************************************************************************)
CueStarts == {0, 5, 10, 3000}
CueLengths == {0, 1000, 3500}
TextKinds == {"none", "note", "zh", "en", "zh_en", "en_ko"}
CueSpecs == [start : CueStarts, len : CueLengths, kind : TextKinds]

ZhTok(k) == <<"zh1", "zh2", "zh3", "zh4">>[k]
EnTok(k) == <<"en1", "en2", "en3", "en4">>[k]
KoTok(k) == <<"ko1", "ko2", "ko3", "ko4">>[k]

TextOf(kind, k) ==
    CASE kind = "none"  -> <<>>
      [] kind = "note"  -> <<Line(FALSE, <<>>)>>
      [] kind = "zh"    -> <<Line(TRUE, <<ZhTok(k)>>)>>
      [] kind = "en"    -> <<Line(FALSE, <<EnTok(k)>>)>>
      [] kind = "zh_en" -> <<Line(TRUE, <<ZhTok(k)>>), Line(FALSE, <<EnTok(k)>>)>>
      [] OTHER          -> <<Line(FALSE, <<EnTok(k)>>), Line(FALSE, <<KoTok(k)>>)>>

\* subs.sort(): events ordered by (start, end)
Sorted(cs) ==
    \A k \in 1..(Len(cs) - 1) :
        \/ cs[k].start < cs[k + 1].start
        \/ cs[k].start = cs[k + 1].start /\ cs[k].len <= cs[k + 1].len

SubtitleFiles ==
    UNION { { cs \in [1..n -> CueSpecs] : Sorted(cs) } : n \in 0..MaxCues }

SubsOf(cs) ==
    [k \in 1..Len(cs) |-> Cue(cs[k].start, cs[k].start + cs[k].len, TextOf(cs[k].kind, k))]

LoadArgs ==
    [cues : SubtitleFiles, start_time : {0, 5}, end_time : {10, Infinity},
     max_segments : {0, 1, 2}]

InitLoad ==
    /\ pc = "call"
    /\ NoPipeline
    /\ arg \in LoadArgs
    /\ res = Null

\* parser.load(...) followed by parser.get_video_clip_times(segments)
CallLoad ==
    /\ pc = "call"
    /\ LET segments == Load(SubsOf(arg.cues), arg.start_time, arg.end_time, arg.max_segments)
       IN res' = [segments |-> segments,
                  window |-> GetVideoClipTimes(segments, ClipPadding)]
    /\ pc' = "returned"
    /\ UNCHANGED <<arg, pipelineVars>>

\* a second load whose segment ids go on from those of the first
CallLoadAgainCountingOn ==
    /\ pc = "returned"
    /\ arg \in LoadArgs
    /\ LET loaded == Load(SubsOf(arg.cues), arg.start_time, arg.end_time, arg.max_segments)
           segments == [k \in 1..Len(loaded) |->
                           [loaded[k] EXCEPT !.id = Len(res.segments) + k]]
       IN res' = [segments |-> res.segments, window |-> res.window,
                  again |-> [segments |-> segments,
                             window |-> GetVideoClipTimes(res.segments, ClipPadding)]]
    /\ pc' = "repeated"
    /\ UNCHANGED <<arg, pipelineVars>>

\* the same parser asked again: load with the same arguments, and
\* get_video_clip_times on the segments first returned
CallLoadAgain ==
    /\ pc = "returned"
    /\ arg \in LoadArgs
    /\ LET segments == Load(SubsOf(arg.cues), arg.start_time, arg.end_time, arg.max_segments)
       IN res' = [segments |-> res.segments, window |-> res.window,
                  again |-> [segments |-> segments,
                             window |-> GetVideoClipTimes(res.segments, ClipPadding)]]
    /\ pc' = "repeated"
    /\ UNCHANGED <<arg, pipelineVars>>

NextLoad == CallLoad \/ CallLoadAgain

SpecLoad == InitLoad /\ [][NextLoad]_vars

Loaded == pc = "returned" /\ arg \in LoadArgs

(***************************************************************************)
(* C15: for every subtitle file, window and cap N >= 1 given as            *)
(* max_segments, load returns at most N segments, each with a non-empty    *)
(* target_text and start_time < end_time.                                  *)
(***************************************************************************)
C15_ExtractionCappedAndWellFormed ==
    (Loaded /\ arg.max_segments >= 1)
        => /\ Len(res.segments) <= arg.max_segments
           /\ \A k \in 1..Len(res.segments) :
                 /\ res.segments[k].target_text # <<>>
                 /\ res.segments[k].start_time < res.segments[k].end_time

\* What does hold: the cap and the non-empty target text.
ExtractionCappedAndTargeted ==
    Loaded
        => /\ arg.max_segments >= 1 => Len(res.segments) <= arg.max_segments
           /\ \A k \in 1..Len(res.segments) : res.segments[k].target_text # <<>>

SegmentStarts == { res.segments[k].start_time : k \in 1..Len(res.segments) }
SegmentEnds == { res.segments[k].end_time : k \in 1..Len(res.segments) }
SetMin(S) == CHOOSE x \in S : \A y \in S : x <= y
SetMax(S) == CHOOSE x \in S : \A y \in S : x >= y

(***************************************************************************)
(* C16: for every non-empty segment sequence returned by load, the window  *)
(* of get_video_clip_times(segments, padding) covers every segment with    *)
(* the padding and is the smallest such window: its start is the earliest  *)
(* segment start minus padding floored at 0, its end the latest segment    *)
(* end plus padding.                                                       *)
(***************************************************************************)
C16_WindowCoversAndMinimal ==
    (Loaded /\ res.segments # <<>>)
        => /\ \A k \in 1..Len(res.segments) :
                 /\ res.window[1] <= Max2(0, res.segments[k].start_time - ClipPadding)
                 /\ res.segments[k].end_time + ClipPadding <= res.window[2]
           /\ res.window[1] = Max2(0, SetMin(SegmentStarts) - ClipPadding)
           /\ res.window[2] = SetMax(SegmentEnds) + ClipPadding

\* What does hold: the start of the window, and the end for the last segment.
WindowOfFirstAndLast ==
    (Loaded /\ res.segments # <<>>)
        => /\ res.window[1] = Max2(0, SetMin(SegmentStarts) - ClipPadding)
           /\ res.window[2] = res.segments[Len(res.segments)].end_time + ClipPadding

(***************************************************************************)
(* AudioMerger examined on its own: create_dubbed_track and                *)
(* create_gap_vocal_track are applied to segment lists of up to MaxDubbed  *)
(* segments.  A track is its length and the bag of the clips mixed into    *)
(* it, each clip with its file, its delay and the divisor amix applies to  *)
(* its level (1 with normalize=0).                                         *)
(***************************************************************************)
Min2(a, b) == IF a <= b THEN a ELSE b

Clip(path, delay) == [path |-> path, delay |-> delay, divisor |-> 1]

BagOfSeq(q) ==
    [e \in { q[i] : i \in DOMAIN q } |-> Cardinality({ i \in DOMAIN q : q[i] = e })]

\* list comprehension of create_dubbed_track and create_gap_vocal_track
ValidSegmentListByPath(segments) ==
    SelectSeq(segments, LAMBDA seg : seg.output_audio_path # NoPath)

ValidSegmentList(segments) ==
    SelectSeq(segments, LAMBDA seg : seg.status = "success" /\ seg.output_audio_path # NoPath)

\* _execute_merge: silent base of total_duration, every segment delayed and mixed
ExecuteMerge(segments, total_duration, time_offset) ==
    [length |-> total_duration,
     clips |-> BagOfSeq([i \in 1..Len(segments) |->
                   Clip(segments[i].output_audio_path,
                        Max2(0, segments[i].start_time - time_offset))])]

RECURSIVE SumClips(_)
SumClips(tracks) ==
    IF tracks = <<>> THEN EmptyBag ELSE tracks[1].clips (+) SumClips(Tail(tracks))

\* normalize=1 scales every input by 1/n
Scaled(clips, n) ==
    [c \in { [d EXCEPT !.divisor = d.divisor * n] : d \in DOMAIN clips } |->
        clips[[c EXCEPT !.divisor = c.divisor \div n]]]

\* amix=inputs=n:duration=first:normalize=<normalize>
Amix(tracks, normalize) ==
    [length |-> tracks[1].length,
     clips |-> IF normalize = 0 THEN SumClips(tracks)
               ELSE Scaled(SumClips(tracks), Len(tracks))]

\* for i in range(0, len(valid_segments), batch_size): valid_segments[i:i + batch_size]
BatchesShortSlices(valid_segments) ==
    [b \in 1..((Len(valid_segments) + BatchSize - 1) \div BatchSize) |->
        SubSeq(valid_segments, (b - 1) * BatchSize + 1,
               Min2(b * BatchSize - 1, Len(valid_segments)))]

Batches(valid_segments) ==
    [b \in 1..((Len(valid_segments) + BatchSize - 1) \div BatchSize) |->
        SubSeq(valid_segments, (b - 1) * BatchSize + 1,
               Min2(b * BatchSize, Len(valid_segments)))]

CreateDubbedTrack(segments, total_duration, time_offset) ==
    LET valid_segments == ValidSegmentList(segments)
        batches == Batches(valid_segments)
        batch_files == [b \in 1..Len(batches) |->
                           ExecuteMerge(batches[b], total_duration, time_offset)]
    IN
    IF valid_segments = <<>>
      THEN [raised |-> "RuntimeError", batches |-> <<>>]
      ELSE IF Len(valid_segments) <= BatchSize
             THEN [raised |-> Null, batches |-> <<>>,
                   track |-> ExecuteMerge(valid_segments, total_duration, time_offset)]
             ELSE [raised |-> Null, batches |-> batches,
                   track |-> Amix(batch_files, 0)]

\* sorted(regions, key=lambda r: r[0]): stable insertion by start
RECURSIVE InsertRegion(_, _)
InsertRegion(r, sorted) ==
    IF sorted = <<>> THEN <<r>>
    ELSE IF r[1] < Head(sorted)[1] THEN <<r>> \o sorted
    ELSE <<Head(sorted)>> \o InsertRegion(r, Tail(sorted))

RECURSIVE SortRegions(_, _)
SortRegions(regions, sorted) ==
    IF regions = <<>> THEN sorted
    ELSE SortRegions(Tail(regions), InsertRegion(Head(regions), sorted))

RECURSIVE MergeInto(_, _, _)
MergeInto(merged, rest, merge_threshold) ==
    IF rest = <<>> THEN merged
    ELSE LET last == merged[Len(merged)]
             r == Head(rest)
         IN IF r[1] <= last[2] + merge_threshold
              THEN MergeInto([merged EXCEPT ![Len(merged)] = <<last[1], Max2(last[2], r[2])>>],
                             Tail(rest), merge_threshold)
              ELSE MergeInto(Append(merged, r), Tail(rest), merge_threshold)

\* a merge that takes the regions in the order given
MergeMuteRegionsUnsorted(regions, merge_threshold) ==
    IF regions = <<>> THEN <<>>
    ELSE MergeInto(<<Head(regions)>>, Tail(regions), merge_threshold)

MergeMuteRegions(regions, merge_threshold) ==
    IF regions = <<>> THEN <<>>
    ELSE LET sorted_regions == SortRegions(regions, <<>>)
         IN MergeInto(<<Head(sorted_regions)>>, Tail(sorted_regions), merge_threshold)

\* the occupied span of one segment, clamped to [0, total_duration]; a falsy
\* actual_duration (None or 0.0) is 0 in the segments given to the merger
RawRegion(seg, total_duration, time_offset) ==
    LET dur == IF seg.actual_duration # 0 THEN seg.actual_duration
               ELSE seg.duration
    IN <<Max2(0, seg.start_time - time_offset - SafetyMargin),
         Min2(total_duration, seg.start_time - time_offset + dur + SafetyMargin)>>

RawRegions(valid_segments, total_duration, time_offset) ==
    SelectSeq([i \in 1..Len(valid_segments) |->
                  RawRegion(valid_segments[i], total_duration, time_offset)],
              LAMBDA r : r[2] > r[1])

\* the envelope is applied even when there is nothing to mute
CreateGapVocalTrackAlwaysEnvelope(segments, total_duration, time_offset) ==
    [made |-> "envelope",
     regions |-> MergeMuteRegions(
                     RawRegions(ValidSegmentList(segments), total_duration, time_offset),
                     GapMergeThreshold),
     fade_dur |-> GapFadeDuration,
     length |-> total_duration]

CreateGapVocalTrack(segments, total_duration, time_offset) ==
    LET valid_segments == ValidSegmentList(segments)
        raw_regions == RawRegions(valid_segments, total_duration, time_offset)
    IN
    IF valid_segments = <<>> \/ raw_regions = <<>>
      THEN [made |-> "copy", regions |-> <<>>]
      ELSE [made |-> "envelope",
            regions |-> MergeMuteRegions(raw_regions, GapMergeThreshold),
            fade_dur |-> GapFadeDuration,
            length |-> total_duration]

\* The segment lists given: segment k starts at k seconds and lasts 800 ms; all
\* are dubbed (every second one with a measured duration of 900 ms) except the one at
\* position flaw_at, if any, whose flaw is flaw.
Flaws == {"error", "pending", "nopath"}

DubbedSegment(k) ==
    [NewSegment(k, 1000 * k, 1000 * k + 800, <<>>, <<"zh">>) EXCEPT
        !.status = "success",
        !.output_audio_path = DubFile(k),
        !.actual_duration = IF k % 2 = 0 THEN 900 ELSE 0]

FlawedSegment(k, flaw) ==
    CASE flaw = "error"   -> [DubbedSegment(k) EXCEPT !.status = "error", !.error_msg = "tts"]
      [] flaw = "pending" -> [DubbedSegment(k) EXCEPT !.status = "pending",
                                                      !.output_audio_path = NoPath]
      [] OTHER            -> [DubbedSegment(k) EXCEPT !.output_audio_path = NoPath]

SegmentsOf(a) ==
    [k \in 1..a.n |-> IF k = a.flaw_at THEN FlawedSegment(k, a.flaw) ELSE DubbedSegment(k)]

\* no flaw (0), or one at the first or last segment or on either side of the
\* first batch boundary
FlawPositions == {0, 1, BatchSize, BatchSize + 1}

MergeArgs ==
    { a \in [n : 0..MaxDubbed, flaw_at : 0..MaxDubbed, flaw : Flaws,
             total_duration : {500, 200000}, time_offset : {0, 2500}] :
        a.flaw_at <= a.n /\ a.flaw_at \in FlawPositions \cup {a.n} }

InitMerge ==
    /\ pc = "call"
    /\ NoPipeline
    /\ arg \in MergeArgs
    /\ res = Null

\* create_dubbed_track and create_gap_vocal_track on the same segments
CallMerge ==
    /\ pc = "call"
    /\ res' = [dub |-> CreateDubbedTrack(SegmentsOf(arg), arg.total_duration, arg.time_offset),
               gap |-> CreateGapVocalTrack(SegmentsOf(arg), arg.total_duration, arg.time_offset)]
    /\ pc' = "returned"
    /\ UNCHANGED <<arg, pipelineVars>>

NextMerge == CallMerge

SpecMerge == InitMerge /\ [][NextMerge]_vars

Merged == pc = "returned" /\ arg \in MergeArgs
MergedValid == ValidSegmentList(SegmentsOf(arg))

RECURSIVE Concat(_)
Concat(qs) == IF qs = <<>> THEN <<>> ELSE Head(qs) \o Concat(Tail(qs))

(***************************************************************************)
(* C17: above the batch size, the batched composition equals a single-pass *)
(* mix of the same segments: the batches partition the list of success     *)
(* segments in order (each at most 50, none dropped or placed twice), each *)
(* segment is placed at its single-pass offset, and the second pass sums   *)
(* the batch tracks without normalization.                                 *)
(***************************************************************************)
C17_BatchedEqualsSinglePass ==
    (Merged /\ Len(MergedValid) > BatchSize)
        => /\ res.dub.raised = Null
           /\ Concat(res.dub.batches) = MergedValid
           /\ \A b \in 1..Len(res.dub.batches) :
                 Len(res.dub.batches[b]) \in 1..BatchSize
           /\ res.dub.track = ExecuteMerge(MergedValid, arg.total_duration, arg.time_offset)
           /\ \A c \in DOMAIN res.dub.track.clips :
                 c.divisor = 1 /\ res.dub.track.clips[c] = 1

\* three batches, the last one short, and segment 51 left out of them
C17_Witness ==
    /\ Merged
    /\ Len(res.dub.batches) = 3
    /\ Len(res.dub.batches[3]) < BatchSize
    /\ arg.flaw_at = BatchSize + 1

ClipsOf(path) == { c \in DOMAIN res.dub.track.clips : c.path = path }
Contributes(seg) == seg.status = "success" /\ seg.output_audio_path # NoPath

(***************************************************************************)
(* C18: the composed dub track holds exactly the segments in status        *)
(* success with an output path, each once at offset                        *)
(* start_time - time_offset floored at 0, over a silent base of length     *)
(* total_duration; a segment in status error or pending contributes        *)
(* nothing.                                                                *)
(***************************************************************************)
C18_TrackHoldsExactlySuccessSegments ==
    (Merged /\ res.dub.raised = Null)
        => LET segments == SegmentsOf(arg)
               track == res.dub.track
           IN /\ track.length = arg.total_duration
              /\ \A k \in 1..Len(segments) :
                    IF Contributes(segments[k])
                      THEN LET c == Clip(segments[k].output_audio_path,
                                         Max2(0, segments[k].start_time - arg.time_offset))
                           IN /\ ClipsOf(segments[k].output_audio_path) = {c}
                              /\ track.clips[c] = 1
                      ELSE ClipsOf(DubFile(segments[k].id)) = {}
              /\ \A c \in DOMAIN track.clips :
                    \E k \in 1..Len(segments) :
                        Contributes(segments[k]) /\ c.path = segments[k].output_audio_path

\* a failed segment that kept its clip's path lies between dubbed ones, and the
\* window starts after the first segments
C18_Witness ==
    /\ Merged
    /\ res.dub.raised = Null
    /\ arg.flaw = "error"
    /\ arg.flaw_at \in 2..(arg.n - 1)
    /\ arg.time_offset > DubbedSegment(1).start_time
    /\ Clip(DubFile(1), 0) \in DOMAIN res.dub.track.clips

\* the occupied span of a segment, clamped to [0, total_duration], written out
SpanStart(seg) == Max2(0, seg.start_time - arg.time_offset - SafetyMargin)
SpanEnd(seg) ==
    Min2(arg.total_duration,
         seg.start_time - arg.time_offset + SafetyMargin
             + (IF seg.actual_duration # 0 THEN seg.actual_duration ELSE seg.duration))
NoContributor == \A k \in 1..arg.n : ~Contributes(SegmentsOf(arg)[k])
AllSpansEmpty ==
    \A k \in 1..arg.n :
        Contributes(SegmentsOf(arg)[k]) => SpanEnd(SegmentsOf(arg)[k]) <= SpanStart(SegmentsOf(arg)[k])

(***************************************************************************)
(* C19: create_gap_vocal_track returns a verbatim copy of the vocal track, *)
(* with no volume envelope, whenever no segment has status success with an *)
(* output path, and whenever every occupied span is empty after clamping   *)
(* to [0, total_duration].                                                 *)
(***************************************************************************)
C19_GapTrackCopiedWhenNothingToMute ==
    (Merged /\ (NoContributor \/ AllSpansEmpty))
        => res.gap = [made |-> "copy", regions |-> <<>>]

\* dubbed segments that all start after the end of the track, one failed among them
C19_Witness ==
    /\ Merged
    /\ res.gap.made = "copy"
    /\ arg.n > 2 /\ arg.flaw_at = 1 /\ arg.flaw = "error"
    /\ ~NoContributor /\ AllSpansEmpty

\* a list whose only segment failed
GapTrackOfNoSuccessReached ==
    ~(Merged /\ res.gap.made = "copy" /\ arg.n = 1 /\ arg.flaw_at = 1 /\ NoContributor)

\* The envelope is applied in every other case.
GapTrackEnvelopeOtherwise ==
    (Merged /\ ~(NoContributor \/ AllSpansEmpty))
        => res.gap.made = "envelope" /\ res.gap.regions # <<>>

(***************************************************************************)
(* ProjectManifest.load examined on its own.  In a manifest file a stage's *)
(* status is a string or, in the older schema, an object {status, files}   *)
(* whose status may be missing; the files list is not read.                *)
(***************************************************************************)
StageString(status) == [form |-> "str", has_status |-> TRUE, status |-> status]
StageObject(has_status, status) == [form |-> "dict", has_status |-> has_status, status |-> status]

StageValues ==
    { StageString("pending"), StageString("completed"),
      StageObject(TRUE, "pending"), StageObject(TRUE, "completed"),
      StageObject(FALSE, Null) }

\* top-level fields and segments of the files given: a project never run, and
\* one whose run completed with one dubbed segment
FileBodies ==
    { FreshManifest,
      [FreshManifest EXCEPT
          !.status = "completed",
          !.clipped_video = ClipFile, !.vocal_track = VocalsFile, !.bgm_track = BgmFile,
          !.dubbed_track = DubTrackFile, !.final_video = FinalVideoFile,
          !.clip_start = 58000, !.clip_end = 63000,
          !.segments = <<[NewSegment(1, 60000, 61000, <<>>, <<"zh">>) EXCEPT
                             !.status = "success",
                             !.output_audio_path = DubFile(1),
                             !.ref_audio_path = RefFile(1)]>>] }

ManifestFiles ==
    { [body EXCEPT !.stages_status = st] :
        body \in FileBodies, st \in [StageNames -> StageValues] }

\* a load that takes an object without status for a completed stage
ProjectManifestLoadObjectCompleted(file) ==
    [file EXCEPT !.stages_status =
        [s \in StageNames |->
            IF file.stages_status[s].form = "dict" THEN "completed"
            ELSE file.stages_status[s].status]]

\* ProjectManifest.load
ProjectManifestLoad(file) ==
    [file EXCEPT !.stages_status =
        [s \in StageNames |->
            LET stage_val == file.stages_status[s]
            IN IF stage_val.form = "dict"
                 THEN IF stage_val.has_status THEN stage_val.status ELSE "pending"
                 ELSE stage_val.status]]

ManifestArgs ==
    [file : ManifestFiles,
     disk : { {}, {ClipFile, VocalsFile, BgmFile, DubTrackFile, FinalVideoFile, DubFile(1)} }]

InitManifest ==
    /\ pc = "call"
    /\ NoPipeline
    /\ arg \in ManifestArgs
    /\ res = Null

\* Pipeline.__init__ loading an existing manifest, and the tests run() then makes
CallManifestLoad ==
    /\ pc = "call"
    /\ LET manifest == ProjectManifestLoad(arg.file)
       IN res' = [manifest |-> manifest,
                  skip |-> [s \in StageNames |-> IsStageCompleted(manifest, arg.disk, s)]]
    /\ pc' = "returned"
    /\ UNCHANGED <<arg, pipelineVars>>

NextManifest == CallManifestLoad

SpecManifest == InitManifest /\ [][NextManifest]_vars

ManifestLoaded == pc = "returned" /\ arg \in ManifestArgs
NestedStages == { s \in StageNames : arg.file.stages_status[s].form = "dict" }
BareStatus(v) == IF v.form = "dict" /\ ~v.has_status THEN "pending" ELSE v.status
\* the same manifest as the pipeline writes it
NewFormat(file) ==
    [file EXCEPT !.stages_status = [s \in StageNames |-> BareStatus(file.stages_status[s])]]

(***************************************************************************)
(* C20: loading a manifest file in which a stage's status is a nested      *)
(* object {status, files} gives a manifest whose stages_status maps that   *)
(* stage to the object's bare status string (pending when it has none);    *)
(* segments and all other fields are loaded unchanged, and the skip        *)
(* decisions are those for the equivalent new-format manifest.             *)
(***************************************************************************)
C20_NestedStageStatusNormalised ==
    (ManifestLoaded /\ NestedStages # {})
        => /\ \A s \in StageNames :
                 res.manifest.stages_status[s] = BareStatus(arg.file.stages_status[s])
           /\ res.manifest = NewFormat(arg.file)
           /\ \A s \in StageNames :
                 res.skip[s] = IsStageCompleted(NewFormat(arg.file), arg.disk, s)

\* the clip stage is stored as a completed object and skipped, the merge stage
\* as an object without status and not skipped although its file exists
C20_Witness ==
    /\ ManifestLoaded
    /\ arg.file.stages_status["clip"] = StageObject(TRUE, "completed")
    /\ arg.file.stages_status["merge"] = StageObject(FALSE, Null)
    /\ arg.file.segments # <<>>
    /\ res.skip["clip"]
    /\ ~res.skip["merge"]
    /\ FinalVideoFile \in arg.disk

Repeated == pc = "repeated" /\ arg \in LoadArgs

Frac(n, d) == [num |-> n, den |-> d]
FracLess(a, b) == a.num * b.den < b.num * a.den
FracMin(a, b) == IF FracLess(b, a) THEN b ELSE a
FracMax(a, b) == IF FracLess(a, b) THEN b ELSE a

SpeedMinAtempo == Frac(4, 5)       \* config.speed_min_atempo = 0.8
SpeedMaxAtempo == Frac(5, 4)       \* config.speed_max_atempo = 1.25
SpeedHardCap == Frac(2, 1)         \* speed = min(speed, 2.0)
NoAdjustLow == Frac(9, 10)         \* 1.0 - config.speed_no_adjust_threshold
NoAdjustHigh == Frac(11, 10)       \* 1.0 + config.speed_no_adjust_threshold
OverlapMargin == 50                \* ... - seg.start_time - 0.05

\* while next_idx < len(segments) and segments[next_idx].status == "error": next_idx += 1
RECURSIVE NextIdx(_, _)
NextIdx(segments, next_idx) ==
    IF next_idx <= Len(segments) /\ segments[next_idx].status = "error"
      THEN NextIdx(segments, next_idx + 1)
      ELSE next_idx

\* the check that the adjusted clip does not run into the next segment
CappedSpeed(segments, i, actual_duration, speed) ==
    LET next_idx == NextIdx(segments, i + 1)
        max_duration == segments[next_idx].start_time - segments[i].start_time - OverlapMargin
    IN IF next_idx <= Len(segments)
            /\ actual_duration * speed.den > max_duration * speed.num  \* adjusted_duration > max_duration
            /\ max_duration > 0
         THEN FracMin(Frac(actual_duration, max_duration), SpeedHardCap)
         ELSE speed

\* the post-processing block up to the call of post_process_audio: what is
\* handed over as speed, or the exception raised before the call
SpeedFor(segments, i, actual_duration) ==
    LET target_duration == segments[i].duration
        ratio == Frac(actual_duration, target_duration)
    IN IF target_duration = 0
         THEN [raised |-> "ZeroDivisionError", applied |-> FALSE, speed |-> Frac(1, 1)]
       ELSE IF FracLess(ratio, NoAdjustLow) \/ FracLess(NoAdjustHigh, ratio)
         THEN [raised |-> Null, applied |-> TRUE,
               speed |-> CappedSpeed(segments, i, actual_duration,
                             FracMax(SpeedMinAtempo, FracMin(SpeedMaxAtempo, ratio)))]
       ELSE [raised |-> Null, applied |-> FALSE, speed |-> Frac(1, 1)]

\* The segment synthesized starts at 10 s; up to MaxFollowers segments follow it.
SlotDurations == {0, 1000, 2000}
SynthesizedDurations == {500, 850, 900, 950, 1100, 1150, 1500, 2500, 3000, 5000}
FollowerGaps == {40, 1000, 3000}
FollowerStatuses == {"pending", "success", "error"}

SynthesizedSegment(duration) ==
    [NewSegment(1, 10000, 10000 + duration, <<>>, <<"zh">>) EXCEPT
        !.status = "success", !.output_audio_path = DubFile(1),
        !.ref_audio_path = SegFile(1)]

Follower(k, f) ==
    [NewSegment(k + 1, 10000 + f.gap, 10000 + f.gap + 1000, <<>>, <<"zh">>) EXCEPT
        !.status = f.status]

SpeedArgs ==
    [duration : SlotDurations,
     actual_duration : SynthesizedDurations,
     followers : UNION { { fs \in [1..n -> [gap : FollowerGaps, status : FollowerStatuses]] :
                             \A k \in 1..(n - 1) : fs[k].gap <= fs[k + 1].gap } :
                         n \in 0..MaxFollowers }]

SpeedSegments(a) ==
    <<SynthesizedSegment(a.duration)>> \o [k \in 1..Len(a.followers) |-> Follower(k, a.followers[k])]

InitSpeed ==
    /\ pc = "call"
    /\ NoPipeline
    /\ arg \in SpeedArgs
    /\ res = Null

CallSpeed ==
    /\ pc = "call"
    /\ res' = SpeedFor(SpeedSegments(arg), 1, arg.actual_duration)
    /\ pc' = "returned"
    /\ UNCHANGED <<arg, pipelineVars>>

NextSpeed == CallSpeed

SpecSpeed == InitSpeed /\ [][NextSpeed]_vars

SpeedComputed == pc = "returned" /\ arg \in SpeedArgs
\* the followers not in status error
LaterUsable == { k \in 1..Len(arg.followers) : arg.followers[k].status # "error" }
NextUsableGap == arg.followers[CHOOSE k \in LaterUsable : \A j \in LaterUsable : k <= j].gap

(***************************************************************************)
(* C23: whenever a speed multiplier is applied to a synthesized clip that  *)
(* is followed by a later segment not in status error, the stretched       *)
(* duration (synthesized duration divided by the multiplier) is at most    *)
(* next.start_time - segment.start_time - 0.05 s.                          *)
(***************************************************************************)
C23_StretchedClipEndsBeforeNext ==
    (SpeedComputed /\ res.applied /\ LaterUsable # {})
        => arg.actual_duration * res.speed.den
              <= (NextUsableGap - OverlapMargin) * res.speed.num

\* What does hold: the bound is met whenever it is positive and can be met with
\* a multiplier of at most 2.
StretchedClipEndsBeforeNextWithinCap ==
    (SpeedComputed /\ res.applied /\ LaterUsable # {}
       /\ NextUsableGap - OverlapMargin > 0
       /\ arg.actual_duration <= 2 * (NextUsableGap - OverlapMargin))
        => arg.actual_duration * res.speed.den
              <= (NextUsableGap - OverlapMargin) * res.speed.num

(***************************************************************************)
(* C24: every speed multiplier handed to post-processing lies within       *)
(* [speed_min_atempo, speed_max_atempo], also after the overlap cap has    *)
(* recomputed it; when the ratio of synthesized to slot duration is within *)
(* the tolerance band, no multiplier is applied.                           *)
(***************************************************************************)
C24_SpeedWithinConfiguredBounds ==
    (SpeedComputed /\ res.raised = Null)
        => /\ res.applied
                => /\ ~FracLess(res.speed, SpeedMinAtempo)
                   /\ ~FracLess(SpeedMaxAtempo, res.speed)
           /\ (/\ 9 * arg.duration <= 10 * arg.actual_duration
               /\ 10 * arg.actual_duration <= 11 * arg.duration) => ~res.applied

\* What does hold: the multiplier lies within [speed_min_atempo, 2], and none is
\* applied within the tolerance band.
SpeedWithinHardCap ==
    (SpeedComputed /\ res.raised = Null)
        => /\ res.applied
                => /\ ~FracLess(res.speed, SpeedMinAtempo)
                   /\ ~FracLess(SpeedHardCap, res.speed)
           /\ (/\ 9 * arg.duration <= 10 * arg.actual_duration
               /\ 10 * arg.actual_duration <= 11 * arg.duration) => ~res.applied

SingleLineKinds == {"note", "zh", "en"}
\* the file begins with two single-line cues less than 10 ms apart, the first of
\* them inside the window; no cap is given
PairAtHead ==
    /\ Loaded
    /\ Len(arg.cues) >= 2
    /\ arg.cues[1].kind \in SingleLineKinds
    /\ arg.cues[2].kind \in SingleLineKinds
    /\ arg.cues[2].start - arg.cues[1].start < PairWindow
    /\ arg.cues[1].start >= arg.start_time
    /\ arg.cues[1].start < arg.end_time
    /\ arg.max_segments = 0

CueText(k) == TextOf(arg.cues[k].kind, k)[1].txt
\* the first segment, with the times of the first cue
PairSegment(src, tgt) ==
    <<[id |-> 1, start_time |-> arg.cues[1].start,
       end_time |-> arg.cues[1].start + arg.cues[1].len, duration |-> arg.cues[1].len,
       source_text |-> src, target_text |-> tgt,
       ref_audio_path |-> NoPath, output_audio_path |-> NoPath,
       actual_duration |-> Null, status |-> "pending", error_msg |-> Null]>>

\* extraction of the cues from cue i on, after the segments already made
RestFrom(i, segments) ==
    LoadFrom(SubsOf(arg.cues), i, segments, arg.start_time, arg.end_time, arg.max_segments)

NoSegmentWithoutTarget ==
    \A k \in 1..Len(res.segments) :
        \E c \in 1..Len(arg.cues) :
            /\ arg.cues[c].kind \in {"zh", "zh_en"}
            /\ \E t \in 1..Len(res.segments[k].target_text) :
                  res.segments[k].target_text[t] = ZhTok(c)

\* The claim as stated: a pair of the same classification is consumed together.
C27_Original ==
    PairAtHead
        => /\ res.segments =
                CASE arg.cues[1].kind = "zh" /\ arg.cues[2].kind # "zh"
                       -> RestFrom(3, PairSegment(CueText(2), CueText(1)))
                  [] arg.cues[1].kind # "zh" /\ arg.cues[2].kind = "zh"
                       -> RestFrom(3, PairSegment(CueText(1), CueText(2)))
                  [] arg.cues[1].kind = "zh" /\ arg.cues[2].kind = "zh"
                       -> RestFrom(3, PairSegment(<<>>, CueText(1)))
                  [] OTHER -> RestFrom(3, <<>>)
           /\ NoSegmentWithoutTarget

(***************************************************************************)
(* C27: for two consecutive single-line cues whose starts differ by less   *)
(* than 10 ms: if exactly one holds target-script text, both are consumed  *)
(* and give one segment with target_text from the target-script cue and    *)
(* source_text from the other; if both hold target-script text, both are   *)
(* consumed and only the first is kept; if neither does, only the first is *)
(* consumed, it gives no segment, and extraction goes on from the second   *)
(* (which may pair with the cue after it); a cue without target-script     *)
(* text that is not paired gives no segment.                               *)
(***************************************************************************)
C27_PairingOfAdjacentCues ==
    PairAtHead
        => /\ res.segments =
                CASE arg.cues[1].kind = "zh" /\ arg.cues[2].kind # "zh"
                       -> RestFrom(3, PairSegment(CueText(2), CueText(1)))
                  [] arg.cues[1].kind # "zh" /\ arg.cues[2].kind = "zh"
                       -> RestFrom(3, PairSegment(CueText(1), CueText(2)))
                  [] arg.cues[1].kind = "zh" /\ arg.cues[2].kind = "zh"
                       -> RestFrom(3, PairSegment(<<>>, CueText(1)))
                  [] OTHER -> RestFrom(2, <<>>)
           /\ NoSegmentWithoutTarget

\* two cues without target-script text at 0 and 5 ms, then a Chinese cue at 10 ms:
\* the second cue is the source of the third
C27_Witness ==
    /\ PairAtHead
    /\ Len(arg.cues) = 3
    /\ arg.cues[1].kind = "en" /\ arg.cues[2].kind = "en" /\ arg.cues[3].kind = "zh"
    /\ Len(res.segments) = 1
    /\ res.segments[1].source_text = <<EnTok(2)>>
    /\ res.segments[1].target_text = <<ZhTok(3)>>

\* the cues that start at or after end_time, and the first of them
LateCues == { k \in 1..Len(arg.cues) : arg.cues[k].start >= arg.end_time }
FirstLate == CHOOSE k \in LateCues : \A j \in LateCues : k <= j
\* extraction of the first n cues alone
LoadOfFirst(n) ==
    Load(SubsOf(SubSeq(arg.cues, 1, n)), arg.start_time, arg.end_time, arg.max_segments)
SegmentsInWindow ==
    \A k \in 1..Len(res.segments) :
        /\ res.segments[k].start_time >= arg.start_time
        /\ res.segments[k].start_time < arg.end_time

(***************************************************************************)
(* C28: load returns no segment whose start_time is before start_time or   *)
(* at or after end_time, and it stops at the first cue (in start order)    *)
(* that starts at or after end_time: neither that cue nor any cue after it *)
(* contributes to a segment.                                               *)
(***************************************************************************)
C28_ExtractionStopsAtWindowEnd ==
    Loaded
        => /\ SegmentsInWindow
           /\ LateCues # {} => res.segments = LoadOfFirst(FirstLate - 1)

\* What does hold: segments start inside the window, no cue after the first late
\* cue contributes, and that cue contributes only as the partner of the cue
\* before it, when that one starts inside the window less than 10 ms earlier.
WindowBoundsExtractionButForPartner ==
    Loaded
        => /\ SegmentsInWindow
           /\ LateCues # {} =>
                /\ res.segments = LoadOfFirst(FirstLate)
                /\ (\/ FirstLate = 1
                    \/ arg.cues[FirstLate].start - arg.cues[FirstLate - 1].start >= PairWindow
                    \/ arg.cues[FirstLate - 1].start < arg.start_time)
                      => res.segments = LoadOfFirst(FirstLate - 1)

IdsAfterPairReached ==
    ~(/\ Loaded
      /\ Len(arg.cues) = 3
      /\ arg.cues[1].kind = "en" /\ arg.cues[2].kind = "zh" /\ arg.cues[3].kind = "zh_en"
      /\ Len(res.segments) = 2
      /\ res.segments[2].id = 2
      /\ res.segments[2].target_text = <<ZhTok(3)>>)

(***************************************************************************)
(* _merge_mute_regions examined on its own, on lists of up to MaxRegions   *)
(* non-empty spans in any order, with the configured threshold.            *)
(***************************************************************************)
RegionPoints == {0, 100, 400, 500, 800, 900, 1300}
Regions == { r \in RegionPoints \X RegionPoints : r[1] < r[2] }
RegionLists == UNION { [1..n -> Regions] : n \in 0..MaxRegions }

InitRegions ==
    /\ pc = "call"
    /\ NoPipeline
    /\ arg \in [regions : RegionLists]
    /\ res = Null

\* merged_regions = self._merge_mute_regions(raw_regions, merge_threshold)
CallMergeMuteRegions ==
    /\ pc = "call"
    /\ res' = [merged_regions |-> MergeMuteRegions(arg.regions, GapMergeThreshold)]
    /\ pc' = "returned"
    /\ UNCHANGED <<arg, pipelineVars>>

NextRegions == CallMergeMuteRegions

SpecRegions == InitRegions /\ [][NextRegions]_vars

RegionsMerged == pc = "returned" /\ arg \in [regions : RegionLists]

\* two spans overlap or lie at most the threshold apart
Near(r, q) == r[1] <= q[2] + GapMergeThreshold /\ q[1] <= r[2] + GapMergeThreshold
\* input spans i and j are linked by a chain of such spans
RECURSIVE Chained(_, _, _)
Chained(i, j, steps) ==
    \/ i = j
    \/ /\ steps > 0
       /\ \E k \in 1..Len(arg.regions) :
             Near(arg.regions[i], arg.regions[k]) /\ Chained(k, j, steps - 1)
Within(r, q) == q[1] <= r[1] /\ r[2] <= q[2]
InputPoints == UNION { {arg.regions[i][1], arg.regions[i][2]} : i \in 1..Len(arg.regions) }

SpansKeptApartReached ==
    ~(/\ RegionsMerged
      /\ arg.regions = << <<500, 800>>, <<0, 100>> >>
      /\ res.merged_regions = << <<0, 100>>, <<500, 800>> >>)

(***************************************************************************)
(* _build_trapezoid_expr and the volume FFmpeg computes from it.  Times    *)
(* here are in units of 0.01 ms, so that the four decimals the expression  *)
(* is written with (0.1 ms) are coarser than the times it is built from:   *)
(* actual_duration comes from ffprobe with six decimals.                   *)
(***************************************************************************)
Ticks(ms) == 100 * ms
\* f"{x:.4f}" of a time in seconds: the nearest multiple of 0.1 ms
Fmt4(x) == ((x + 5) \div 10) * 10

\* a/b < c/d for non-negative fractions, by continued fractions (no products)
RECURSIVE FracBelow(_, _)
FracBelow(a, b) ==
    LET qa == a.num \div a.den
        qb == b.num \div b.den
        ra == a.num % a.den
        rb == b.num % b.den
    IN IF qa # qb THEN qa < qb
       ELSE IF rb = 0 THEN FALSE
       ELSE IF ra = 0 THEN TRUE
       ELSE FracBelow(Frac(b.den, rb), Frac(a.den, ra))
FracSame(a, b) == ~FracBelow(a, b) /\ ~FracBelow(b, a)
FracTimes(a, b) == Frac(a.num * b.num, a.den * b.den)

\* left = "1" or f"clip((t-{fade_in_start:.4f})/{actual_fade_in:.4f},0,1)"
LeftRamp(s, fade_dur) ==
    LET fade_in_start == Max2(0, s - fade_dur)
        actual_fade_in == s - fade_in_start
    IN IF actual_fade_in < Ticks(1) THEN <<>>
       ELSE << [rising |-> TRUE, at |-> Fmt4(fade_in_start), over |-> Fmt4(actual_fade_in)] >>

\* right = "1" or f"clip(({fade_out_end:.4f}-t)/{actual_fade_out:.4f},0,1)"
RightRamp(e, fade_dur, total_duration) ==
    LET fade_out_end == Min2(total_duration, e + fade_dur)
        actual_fade_out == fade_out_end - e
    IN IF actual_fade_out < Ticks(1) THEN <<>>
       ELSE << [rising |-> FALSE, at |-> Fmt4(fade_out_end), over |-> Fmt4(actual_fade_out)] >>

\* a trapezoid is the product of the ramps that are not "1"
BuildTrapezoidExpr(regions, fade_dur, total_duration) ==
    [ i \in 1..Len(regions) |->
        LeftRamp(regions[i][1], fade_dur)
            \o RightRamp(regions[i][2], fade_dur, total_duration) ]

\* FFmpeg's clip(x, 0, 1)
Clip01(n, d) ==
    IF n <= 0 THEN Frac(0, 1) ELSE IF n >= d THEN Frac(1, 1) ELSE Frac(n, d)
RampAt(ramp, t) ==
    IF ramp.rising THEN Clip01(t - ramp.at, ramp.over) ELSE Clip01(ramp.at - t, ramp.over)
TrapezoidAt(ramps, t) ==
    IF Len(ramps) = 0 THEN Frac(1, 1)
    ELSE IF Len(ramps) = 1 THEN RampAt(ramps[1], t)
    ELSE FracTimes(RampAt(ramps[1], t), RampAt(ramps[2], t))
\* max(trapezoids[i], max_expr), nested from the last trapezoid
RECURSIVE MaxExprAt(_, _)
MaxExprAt(trapezoids, t) ==
    IF Len(trapezoids) = 1 THEN TrapezoidAt(trapezoids[1], t)
    ELSE LET a == TrapezoidAt(Head(trapezoids), t)
             b == MaxExprAt(Tail(trapezoids), t)
         IN IF FracBelow(a, b) THEN b ELSE a
\* "1" when there are no regions, else f"1-{max_expr}"
VolumeAt(trapezoids, t) ==
    IF trapezoids = <<>> THEN Frac(1, 1)
    ELSE LET mx == MaxExprAt(trapezoids, t) IN Frac(mx.den - mx.num, mx.den)

\* span starts come from subtitle times (whole ms); span ends from measured
\* durations, or from the end of the track
EnvDurations == {Ticks(1000), Ticks(1000) + 3}
EnvStarts == {0, 50, Ticks(50), Ticks(400)}
EnvEnds == {Ticks(200), Ticks(200) + 4, Ticks(500) - 4, Ticks(900), Ticks(1000)}
EnvRegions == { r \in EnvStarts \X EnvEnds : r[1] < r[2] }
EnvArgs ==
    [regions : UNION { [1..n -> EnvRegions] : n \in 0..MaxSpans },
     total_duration : EnvDurations]
\* the frame times looked at: around every corner of the envelope
EnvOffsets == {-Ticks(10), -7, -1, 0, 1, 7, Ticks(10), Ticks(75)}
FrameTimes(total_duration) ==
    { t \in { p + d : p \in EnvStarts \cup EnvEnds \cup {Ticks(650)}, d \in EnvOffsets }
              \cup { p - Ticks(GapFadeDuration) + d : p \in EnvStarts, d \in EnvOffsets }
              \cup { p + Ticks(GapFadeDuration) + d : p \in EnvEnds, d \in EnvOffsets } :
        0 <= t /\ t <= total_duration }

InitEnvelope ==
    /\ pc = "call"
    /\ NoPipeline
    /\ arg \in EnvArgs
    /\ res = Null

\* merged_regions = self._merge_mute_regions(raw_regions, merge_threshold)
\* expr = self._build_trapezoid_expr(merged_regions, fade_dur, total_duration)
CallBuildTrapezoidExpr ==
    /\ pc = "call"
    /\ LET raw == [ i \in 1..Len(arg.regions) |->
                       <<Max2(0, arg.regions[i][1]),
                         Min2(arg.total_duration, arg.regions[i][2])>> ]
           merged_regions == MergeMuteRegions(raw, Ticks(GapMergeThreshold))
       IN res' = [merged_regions |-> merged_regions,
                  expr |-> BuildTrapezoidExpr(merged_regions, Ticks(GapFadeDuration),
                                              arg.total_duration),
                  t |-> 0,
                  volume |-> Frac(1, 1)]
    /\ pc' = "built"
    /\ UNCHANGED <<arg, pipelineVars>>

\* volume='{expr}':eval=frame: FFmpeg evaluates the expression at a frame time
EvalFrame ==
    /\ pc = "built"
    /\ \E t \in FrameTimes(arg.total_duration) :
          res' = [res EXCEPT !.t = t, !.volume = VolumeAt(res.expr, t)]
    /\ pc' = "evaluated"
    /\ UNCHANGED <<arg, pipelineVars>>

NextEnvelope == CallBuildTrapezoidExpr \/ EvalFrame

SpecEnvelope == InitEnvelope /\ [][NextEnvelope]_vars

Evaluated == pc = "evaluated" /\ arg \in EnvArgs
FarFromSpans ==
    \A k \in 1..Len(res.merged_regions) :
        \/ res.t < res.merged_regions[k][1] - Ticks(GapFadeDuration)
        \/ res.t > res.merged_regions[k][2] + Ticks(GapFadeDuration)
InsideSpan(k) ==
    res.merged_regions[k][1] <= res.t /\ res.t <= res.merged_regions[k][2]
\* the fade before span k, cut short at the start of the track
FadeInLength(k) == Min2(res.merged_regions[k][1], Ticks(GapFadeDuration))
InFadeIn(k) ==
    /\ res.merged_regions[k][1] - FadeInLength(k) <= res.t
    /\ res.t < res.merged_regions[k][1]
\* the fade after span k, cut short at the end of the track
FadeOutLength(k) ==
    Min2(arg.total_duration - res.merged_regions[k][2], Ticks(GapFadeDuration))
InFadeOut(k) ==
    /\ res.merged_regions[k][2] < res.t
    /\ res.t <= res.merged_regions[k][2] + FadeOutLength(k)
InOneFadeOnly(k) ==
    \A j \in 1..Len(res.merged_regions) :
        j # k => \/ res.t < res.merged_regions[j][1] - Ticks(GapFadeDuration) - 10
                 \/ res.t > res.merged_regions[j][2] + Ticks(GapFadeDuration) + 10
OnGrid(x) == x % 10 = 0
SpansOnGrid ==
    \A k \in 1..Len(res.merged_regions) :
        /\ OnGrid(res.merged_regions[k][1]) /\ OnGrid(res.merged_regions[k][2])
        /\ res.merged_regions[k][1] \notin 1..(Ticks(1) - 1)
        /\ arg.total_duration - res.merged_regions[k][2] \notin 1..(Ticks(1) - 1)
        /\ OnGrid(Min2(arg.total_duration, res.merged_regions[k][2] + Ticks(GapFadeDuration)))

EnvelopeShape ==
    /\ FarFromSpans => FracSame(res.volume, Frac(1, 1))
    /\ \A k \in 1..Len(res.merged_regions) :
          /\ InsideSpan(k) => FracSame(res.volume, Frac(0, 1))
          /\ InFadeIn(k) /\ InOneFadeOnly(k)
                => FracSame(res.volume,
                            Frac(res.merged_regions[k][1] - res.t, FadeInLength(k)))
          /\ InFadeOut(k) /\ InOneFadeOnly(k)
                => FracSame(res.volume,
                            Frac(res.t - res.merged_regions[k][2], FadeOutLength(k)))
    /\ ~FracBelow(Frac(1, 1), res.volume)

(***************************************************************************)
(* C31: the gap volume is 1 at every time farther than the fade duration   *)
(* (150 ms) from every merged span, 0 at every time inside a merged span,  *)
(* between 0 and 1 everywhere, and on each side of a span it changes       *)
(* linearly over the fade duration, shortened where the start or the end   *)
(* of the track is nearer.                                                 *)
(***************************************************************************)
C31_EnvelopeShape == Evaluated => EnvelopeShape

\* the same shape holds when every corner of the envelope is a multiple of
\* 0.1 ms and no fade is shorter than 1 ms
EnvelopeShapeOnGrid == Evaluated /\ SpansOnGrid => EnvelopeShape

\* whatever the spans, the volume is within 0..1 and is 1 far from them
EnvelopeWithinUnit ==
    Evaluated
        => /\ res.volume.den > 0
           /\ 0 <= res.volume.num /\ res.volume.num <= res.volume.den
           /\ (\A k \in 1..Len(res.merged_regions) :
                  \/ res.t < res.merged_regions[k][1] - Ticks(GapFadeDuration) - 5
                  \/ res.t > res.merged_regions[k][2] + Ticks(GapFadeDuration) + 5)
              => res.volume.num = res.volume.den

(***************************************************************************)
(* _int_to_cn: the place-value reading of an integer, as a sequence of     *)
(* words written in pinyin (ling2 is the zero word, yi1 one, shi2 ten,     *)
(* bai3 hundred, qian1 thousand, wan4 ten thousand, yi4 hundred million).  *)
(***************************************************************************)
DigitWords ==
    <<"ling2", "yi1", "er4", "san1", "si4", "wu3", "liu4", "qi1", "ba1", "jiu3">>
\* d[k] for the string d = '零一二三四五六七八九'
CnDigit(k) == DigitWords[k + 1]
Wan == 10000
Yi == 100000000

\* if 0 < n < limit: result += '零'
ZeroWord(n, limit) == IF 0 < n /\ n < limit THEN <<"ling2">> ELSE <<>>

\* a ten that is read as if the words before it were never looked at
TensWordsAlwaysBare(n, result) ==
    IF n >= 10
    THEN IF n \div 10 = 1 THEN <<"shi2">> ELSE <<CnDigit(n \div 10), "shi2">>
    ELSE <<>>

\* the branch "if n >= 10": '十' alone for a leading ten, else digit and '十'
TensWords(n, result) ==
    IF n >= 10
    THEN IF n \div 10 = 1 /\ result = <<>>
         THEN <<"shi2">>
         ELSE <<CnDigit(n \div 10), "shi2">>
    ELSE <<>>

RECURSIVE IntToCn(_)
IntToCn(n) ==
    IF n = 0 THEN <<"ling2">>
    ELSE LET r1 == IF n >= Yi
                   THEN IntToCn(n \div Yi) \o <<"yi4">> \o ZeroWord(n % Yi, 10000000)
                   ELSE <<>>
             n1 == IF n >= Yi THEN n % Yi ELSE n
             r2 == IF n1 >= Wan
                   THEN r1 \o IntToCn(n1 \div Wan) \o <<"wan4">> \o ZeroWord(n1 % Wan, 1000)
                   ELSE r1
             n2 == IF n1 >= Wan THEN n1 % Wan ELSE n1
             r3 == IF n2 >= 1000
                   THEN r2 \o <<CnDigit(n2 \div 1000), "qian1">> \o ZeroWord(n2 % 1000, 100)
                   ELSE r2
             n3 == IF n2 >= 1000 THEN n2 % 1000 ELSE n2
             r4 == IF n3 >= 100
                   THEN r3 \o <<CnDigit(n3 \div 100), "bai3">> \o ZeroWord(n3 % 100, 10)
                   ELSE r3
             n4 == IF n3 >= 100 THEN n3 % 100 ELSE n3
             r5 == r4 \o TensWords(n4, r4)
             n5 == IF n4 >= 10 THEN n4 % 10 ELSE n4
         IN IF n5 > 0 THEN r5 \o <<CnDigit(n5)>> ELSE r5

\* the integers read: every string of MaxDigits digits over 0, 1 (special
\* before a ten), 2 and 7
NumeralDigits == {0, 1, 2, 7}
RECURSIVE ValueOf(_)
ValueOf(digits) ==
    IF digits = <<>> THEN 0
    ELSE 10 * ValueOf(SubSeq(digits, 1, Len(digits) - 1)) + digits[Len(digits)]
NumeralArgs == [digits : [1..MaxDigits -> NumeralDigits]]

InitNumeral ==
    /\ pc = "call"
    /\ NoPipeline
    /\ arg \in NumeralArgs
    /\ res = Null

\* return self._int_to_cn(int(s))
CallIntToCn ==
    /\ pc = "call"
    /\ res' = [n |-> ValueOf(arg.digits), words |-> IntToCn(ValueOf(arg.digits))]
    /\ pc' = "returned"
    /\ UNCHANGED <<arg, pipelineVars>>

NextNumeral == CallIntToCn

SpecNumeral == InitNumeral /\ [][NextNumeral]_vars

NumeralRead == pc = "returned" /\ arg \in NumeralArgs /\ res.n <= 99999999

\* the digits of res.n without leading zeros; place p counts from 0 at the
\* units, and the digit of place p is Place(p)
Places ==
    IF res.n = 0 THEN 0
    ELSE CHOOSE k \in 1..Len(arg.digits) :
            /\ ValueOf(SubSeq(arg.digits, 1, Len(arg.digits) - k)) = 0
            /\ arg.digits[Len(arg.digits) - k + 1] # 0
Place(p) == arg.digits[Len(arg.digits) - p]
UnitOf(p) ==
    IF p % 4 = 3 THEN <<"qian1">> ELSE IF p % 4 = 2 THEN <<"bai3">>
    ELSE IF p % 4 = 1 THEN <<"shi2">> ELSE <<>>
\* a non-zero digit at place p that follows a zero which is not a leading one
AfterInternalZero(p) == p + 1 < Places /\ Place(p + 1) = 0 /\ Place(p) # 0
\* the words the claim gives to place p, with the zero word of a run of
\* internal zeros in front of the digit that ends the run
RECURSIVE ReadingFrom(_, _)
ReadingFrom(p, zeroBeforeThousands) ==
    IF p < 0 THEN <<>>
    ELSE LET zero == IF AfterInternalZero(p) /\ (zeroBeforeThousands \/ p % 4 # 3)
                     THEN <<"ling2">> ELSE <<>>
             digit == IF Place(p) = 0 THEN <<>>
                      ELSE IF Place(p) = 1 /\ p % 4 = 1 /\ p = Places - 1 THEN <<"shi2">>
                      ELSE <<CnDigit(Place(p))>> \o UnitOf(p)
             group == IF p = 4 THEN <<"wan4">> ELSE <<>>
         IN zero \o digit \o group \o ReadingFrom(p - 1, zeroBeforeThousands)
Reading(zeroBeforeThousands) ==
    IF res.n = 0 THEN <<"ling2">> ELSE ReadingFrom(Places - 1, zeroBeforeThousands)

\* C32 as stated: one zero word for every run of internal zeros
C32_Original == NumeralRead => res.words = Reading(TRUE)

(***************************************************************************)
(* C32: for every n from 0 to 99,999,999 the reading _int_to_cn gives has  *)
(* each non-zero digit followed by its unit, no zero word at the end, no   *)
(* two adjacent zero words, a leading ten without a one before it, and     *)
(* exactly one zero word for each run of internal zeros, except that a run *)
(* which ends the ten-thousands group (the thousands digit after it is     *)
(* not zero) has no zero word.                                             *)
(***************************************************************************)
C32_PlaceValueReading == NumeralRead => res.words = Reading(FALSE)

\* 10,020,017: a zero word inside the ten-thousands group, one for the
\* zeros that open the lower group, and a ten that keeps its one
C32_Witness ==
    /\ NumeralRead
    /\ res.n = 10020017
    /\ res.words = <<"yi1", "qian1", "ling2", "er4", "wan4", "ling2",
                     "yi1", "shi2", "qi1">>

\* 10,001,000 is read without a zero word, 120,000 with a bare leading ten
GroupEndZerosReached ==
    ~(/\ NumeralRead
      /\ res.n = 10001000
      /\ res.words = <<"yi1", "qian1", "wan4", "yi1", "qian1">>)
LeadingTenReached ==
    ~(/\ NumeralRead
      /\ res.n = 120000
      /\ res.words = <<"shi2", "er4", "wan4">>)

(***************************************************************************)
(* BatchRunner.run: the entries of batch.json processed one after another  *)
(* with one TTSEngine created before the loop and unloaded after it.       *)
(***************************************************************************)
EntryStatuses == {"pending", "processing", "error", "completed"}
\* an entry of batch.json, with whether the files it names exist
Entries ==
    [status : EntryStatuses, video_exists : BOOLEAN, subtitle_exists : BOOLEAN,
     error : {Null}, output : {Null}]
BatchArgs ==
    [entries : UNION { [1..n -> Entries] : n \in 0..MaxEntries },
     force_run : BOOLEAN]

\* the parameters Pipeline.__init__ declares
PipelineParameters ==
    {"video_path", "subtitle_path", "output_dir", "project_name", "demo_mode", "force_run"}
\* the keyword arguments BatchRunner.run passes
BatchKeywords == {"video_path", "subtitle_path", "demo_mode", "force_run", "tts_engine"}
\* a call with a keyword the function does not declare raises TypeError
Constructs(keywords, parameters) == keywords \subseteq parameters

\* to_process: every entry when force_run, else those pending, error or processing
ToProcess(entries, force) ==
    SelectSeq([i \in 1..Len(entries) |-> i],
              LAMBDA i : force \/ entries[i].status \in {"pending", "error", "processing"})

InitBatch ==
    /\ pc = "call"
    /\ NoPipeline
    /\ arg \in BatchArgs
    /\ res = Null

\* load, the two early returns, and tts_engine = TTSEngine(lazy_load=True)
BatchStart ==
    /\ pc = "call"
    /\ LET to_process == ToProcess(arg.entries, arg.force_run)
       IN IF arg.entries = <<>> \/ to_process = <<>>
          THEN /\ pc' = "returned"
               /\ res' = [entries |-> arg.entries, to_process |-> to_process, seq |-> 0,
                          engine |-> "none", constructed |-> {}, ran |-> {}]
          ELSE /\ pc' = "loop"
               /\ res' = [entries |-> arg.entries, to_process |-> to_process, seq |-> 0,
                          engine |-> "created", constructed |-> {}, ran |-> {}]
    /\ UNCHANGED <<arg, pipelineVars>>

\* one turn of the for loop
BatchEntry ==
    /\ pc = "loop"
    /\ res.seq < Len(res.to_process)
    /\ LET i == res.to_process[res.seq + 1]
           entry == res.entries[i]
       IN IF ~entry.video_exists
          THEN res' = [res EXCEPT !.seq = @ + 1,
                                  !.entries[i].status = "error",
                                  !.entries[i].error = "video"]
          ELSE IF ~entry.subtitle_exists
          THEN res' = [res EXCEPT !.seq = @ + 1,
                                  !.entries[i].status = "error",
                                  !.entries[i].error = "subtitle"]
          ELSE IF ~Constructs(BatchKeywords, PipelineParameters)
          THEN res' = [res EXCEPT !.seq = @ + 1,
                                  !.entries[i].status = "error",
                                  !.entries[i].error = "TypeError"]
          ELSE \E ok \in BOOLEAN :
                  res' = [res EXCEPT !.seq = @ + 1,
                                     !.constructed = @ \cup {i},
                                     !.ran = @ \cup {i},
                                     !.entries[i].status =
                                         IF ok THEN "completed" ELSE "error",
                                     !.entries[i].output = IF ok THEN "video" ELSE Null,
                                     !.entries[i].error = IF ok THEN Null ELSE "run"]
    /\ pc' = "loop"
    /\ UNCHANGED <<arg, pipelineVars>>

\* finally: tts_engine.unload()
BatchEnd ==
    /\ pc = "loop"
    /\ res.seq = Len(res.to_process)
    /\ res' = [res EXCEPT !.engine = "unloaded"]
    /\ pc' = "returned"
    /\ UNCHANGED <<arg, pipelineVars>>

NextBatch == BatchStart \/ BatchEntry \/ BatchEnd

SpecBatch == InitBatch /\ [][NextBatch]_vars

BatchDone == pc = "returned" /\ arg \in BatchArgs
\* the processed entries whose two files exist
Runnable ==
    { i \in 1..Len(arg.entries) :
        /\ \E k \in 1..Len(res.to_process) : res.to_process[k] = i
        /\ arg.entries[i].video_exists /\ arg.entries[i].subtitle_exists }

(***************************************************************************)
(* C33: in batch mode one engine is created for the whole batch and        *)
(* unloaded only after the last entry, and every processed entry whose     *)
(* video and subtitle files exist has its pipeline constructed with that   *)
(* engine and run.                                                         *)
(***************************************************************************)
C33_BatchSharesEngine ==
    /\ pc = "loop" /\ arg \in BatchArgs => res.engine = "created"
    /\ BatchDone
          => /\ res.to_process # <<>> => res.engine = "unloaded"
             /\ \A i \in Runnable : i \in res.constructed /\ i \in res.ran

\* what the batch does instead: one engine created and unloaded once, and
\* every entry whose files exist ends in error without a pipeline
BatchConstructsNothing ==
    /\ pc = "loop" /\ arg \in BatchArgs => res.engine = "created"
    /\ BatchDone
          => /\ res.to_process # <<>> => res.engine = "unloaded"
             /\ res.constructed = {}
             /\ \A i \in Runnable :
                   res.entries[i].status = "error" /\ res.entries[i].error = "TypeError"

(***************************************************************************)
(* Two projects under one temp directory.  A file is <<directory, project, *)
(* kind, id>>: files of temp/ and temp/intermediate/ carry the project     *)
(* name, files of temp/segments/ and temp/output/ are named by segment id  *)
(* alone (project "-").  Project "P" is force-restarted or invalidated,    *)
(* project "Q" is the other one.                                           *)
(***************************************************************************)
ProjectFile(dir, project, kind) == <<dir, project, kind, 0>>
SegmentFile(dir, kind, id) == <<dir, "-", kind, id>>
OtherStatuses == {"pending", "success", "error"}
\* Q's manifest: segment k is success with output/dub_000k_final.wav, or not
OtherSegment(k, status) ==
    [id |-> k, status |-> status,
     output_audio_path |->
         IF status = "success" THEN SegmentFile("output", "dub_final", k) ELSE NoPath]
OtherManifests ==
    UNION { { [segments |-> [k \in 1..n |-> OtherSegment(k, st[k])],
               clipped_video |-> ProjectFile("intermediate", "Q", "clip")] :
              st \in [1..n -> OtherStatuses] } : n \in 1..MaxOther }
\* the files Q's manifest refers to
OtherFiles(other) ==
    {other.clipped_video}
        \cup { other.segments[k].output_audio_path :
                 k \in { j \in 1..Len(other.segments) : other.segments[j].status = "success" } }
\* what P may have left behind
OwnFiles ==
    {ProjectFile("temp", "P", "manifest"), ProjectFile("temp", "P", "dub"),
     ProjectFile("intermediate", "P", "clip"), ProjectFile("intermediate", "P", "full"),
     SegmentFile("segments", "seg", 1), SegmentFile("output", "dub", 1)}
ProjectsArgs ==
    { [other |-> o, files |-> OtherFiles(o) \cup own, range_changed |-> ch] :
        o \in OtherManifests, own \in SUBSET OwnFiles, ch \in BOOLEAN }

\* _clean_intermediate_files: the manifest, temp/{name}_*.wav|mp4,
\* intermediate/{name}_*, segments/seg_*.wav|ref_*.wav, output/dub_*.wav
CleanIntermediateFilesOf(files, name) ==
    { f \in files :
        ~ \/ f[1] \in {"temp", "intermediate"} /\ f[2] = name
          \/ f[1] = "segments" /\ f[3] \in {"seg", "ref"}
          \/ f[1] = "output" /\ f[3] \in {"dub", "dub_final", "dub_adj"} }

\* the deletions of _invalidate_on_range_change once the range has changed:
\* clip, vocal and bgm tracks, {name}_full.wav, seg_*, ref_*, dub_*
InvalidateFilesOf(files, name) ==
    { f \in files :
        ~ \/ f[1] = "intermediate" /\ f[2] = name /\ f[3] \in {"clip", "vocals", "bgm", "full"}
          \/ f[1] = "segments" /\ f[3] \in {"seg", "ref"}
          \/ f[1] = "output" /\ f[3] \in {"dub", "dub_final", "dub_adj"} }

InitProjects ==
    /\ pc = "call"
    /\ NoPipeline
    /\ arg \in ProjectsArgs
    /\ res = Null

\* Pipeline(..., force_run=True) for project P
CallForceRestart ==
    /\ pc = "call"
    /\ res' = [files |-> CleanIntermediateFilesOf(arg.files, "P"), by |-> "force"]
    /\ pc' = "returned"
    /\ UNCHANGED <<arg, pipelineVars>>

\* _invalidate_on_range_change of project P: returns early when P has no
\* clip or its length is within the tolerance
CallInvalidate ==
    /\ pc = "call"
    /\ res' = [files |-> IF ProjectFile("intermediate", "P", "clip") \in arg.files
                            /\ arg.range_changed
                         THEN InvalidateFilesOf(arg.files, "P")
                         ELSE arg.files,
               by |-> "invalidate"]
    /\ pc' = "returned"
    /\ UNCHANGED <<arg, pipelineVars>>

NextProjects == CallForceRestart \/ CallInvalidate

SpecProjects == InitProjects /\ [][NextProjects]_vars

ProjectsDone == pc = "returned" /\ arg \in ProjectsArgs

(***************************************************************************)
(* C35: a force-restart or a window invalidation of one project deletes no *)
(* file another project's manifest refers to: every success segment of the *)
(* other project still has its output file afterwards.                     *)
(***************************************************************************)
C35_OtherProjectsUntouched ==
    ProjectsDone => OtherFiles(arg.other) \subseteq res.files

\* the files named after the other project do survive; its success segments
\* lose their output files whenever anything is cleaned
OtherProjectLosesOutputs ==
    ProjectsDone
        => /\ arg.other.clipped_video \in res.files
           /\ res.by = "force"
                 => \A k \in 1..Len(arg.other.segments) :
                       arg.other.segments[k].output_audio_path \notin res.files

(***************************************************************************)
(* The Controller invoked again and again on one project with the same     *)
(* mode and force flag.  Failing collaborator calls, lost files and        *)
(* terminations are bounded by MaxEvents; the process keeps running and    *)
(* the Controller keeps being invoked (weak fairness of the next step).    *)
(***************************************************************************)
InitRepeating ==
    /\ pc = "idle"
    /\ mode \in Modes
    /\ force_run \in BOOLEAN
    /\ m = FreshManifest
    /\ saved = NoManifest
    /\ disk = {}
    /\ clipWin = <<0, 0>>
    /\ idx = 0
    /\ tts_engine = "none"
    /\ calls = {}
    /\ fails = {}
    /\ raised = Null
    /\ saved0 = NoManifest
    /\ disk0 = {}
    /\ parsed0 = <<>>
    /\ events = 0
    /\ prev = {}
    /\ arg = Null
    /\ res = Null

\* Pipeline(...) with the parameters of the invocation before
ConstructSame == Construct /\ mode' = mode /\ force_run' = force_run

NextRepeating ==
    \/ LoseFile
    \/ ConstructSame
    \/ Begin
    \/ ParseSubtitles
    \/ InvalidateOnRangeChange
    \/ SkipClip
    \/ StageClipVideo
    \/ SkipExtract
    \/ StageExtractAudio
    \/ ProcessSegment
    \/ ProcessEnd
    \/ GenerateBegin
    \/ GenerateSegment
    \/ GenerateEnd
    \/ StageMergeOutput
    \/ Terminate

SpecRepeating == InitRepeating /\ [][NextRepeating]_vars /\ WF_vars(NextRepeating)

\* a run has returned with the manifest completed and every segment success
ReturnedComplete ==
    /\ pc = "done"
    /\ saved # NoManifest
    /\ saved.status = "completed"
    /\ saved.segments # <<>>
    /\ \A k \in 1..Len(saved.segments) : saved.segments[k].status = "success"

\* C39 as stated, for every input
C39_Original == <>ReturnedComplete

(***************************************************************************)
(* C39: when the Controller is invoked again and again with unchanged      *)
(* inputs whose subtitle window holds at least one segment, and            *)
(* terminations and collaborator failures are finite, eventually a run     *)
(* returns with manifest status completed and every segment success.       *)
(***************************************************************************)
C39_EventuallyComplete ==
    (ModeSegments(mode) # <<>>) ~> ReturnedComplete

\* a run that returns complete after an earlier invocation of the same inputs
\* had a collaborator failure or was terminated
C39_Witness ==
    /\ ReturnedComplete
    /\ events > 0
    /\ saved0 # NoManifest
    /\ saved0.status \in {"error", "processing"}

\* with no segment in the window every run ends in the parse stage
EmptyWindowNeverCompletes ==
    ModeSegments(mode) = <<>> => pc \notin {"invalidate", "clip", "extract", "process",
                                            "generate", "merge", "done"}

====
